---------------------------- MODULE Spec2Model ----------------------------
(***************************************************************************)
(* A model of the split-value voting prototype (sv.py, sv_sbb.py,          *)
(* sv_election.py, sv_server.py, sv_voter.py, sv_tally.py, sv_prover.py,   *)
(* sv_verifier.py, sv_main.py).                                            *)
(*                                                                         *)
(* Python values are modelled with their shape: a list is a sequence, a    *)
(* dict is a function on its key set, and a call that raises leaves the    *)
(* name of the exception in the result (field exc) or in the variable err. *)
(* SHA-256 is an unknown but fixed function: the variable sha holds, for   *)
(* every seed, the digests of the hash chain that have been asked for so   *)
(* far; a digest asked for a second time is the one recorded.              *)
(*                                                                         *)
(* Several specifications share the variables: Spec is the program         *)
(* sv_main.do_election; SpecSv drives the arithmetic of sv.py; the others  *)
(* drive one component each from the objects its constructor builds.       *)
(***************************************************************************)
EXTENDS Integers, Sequences, FiniteSets, TLC

VARIABLES
    randomness_sources, \* sv.randomness_sources: name -> state of the source
    sha,                \* seed -> digests of its hash chain revealed so far
    op,                 \* the function that ran last ("" before the first)
    arg,                \* its arguments
    ret,                \* what it returned: [exc |-> ..., val |-> ...]
    sbb,                \* run -> the SBB object of the run: board, closed
    clock,              \* run -> the wall-clock time of the run, in seconds
    election,           \* the Election object: its attributes set so far
    pc,                 \* the statement the program is at
    err,                \* the exception that ended the program ("" if none)
    votes               \* race_id -> position p -> the choice the voter made

vars == <<randomness_sources, sha, op, arg, ret, sbb, clock, election, pc, err,
          votes>>
svVars == <<randomness_sources, sha>>
callVars == <<op, arg, ret>>
sbbVars == <<sbb, clock>>
runVars == <<election, pc, err, votes>>

(***************************************************************************)
(* Bounds of the model.                                                    *)
(***************************************************************************)
MaxDraws == 3       \* values drawn from one source before it is re-seeded
DigestSpace == 3    \* digests are 0 .. DigestSpace-1
MaxModulus == 5     \* moduli M range over 2 .. MaxModulus
MaxShares == 3      \* n of share() ranges over 1 .. MaxShares
MaxBoard == 3       \* entries on a bulletin board
MaxClock == 1       \* the wall clock reads 0 .. MaxClock
MaxVoters == 2      \* n_voters ranges up to MaxVoters
MaxReps == 4        \* n_reps ranges up to MaxReps
MaxFail == 1        \* n_fail ranges up to MaxFail
MaxLeak == 1        \* n_leak ranges up to MaxLeak
MaxKeys == 3        \* a permuted dict has up to MaxKeys keys
MaxGrid == 26       \* n_fail and n_leak of a server array range up to MaxGrid

Digest == 0 .. (DigestSpace - 1)

NoExc == ""
Raise(e) == [exc |-> e, val |-> <<>>]
Return(v) == [exc |-> NoExc, val |-> v]

(***************************************************************************)
(* Helpers on sequences.                                                   *)
(***************************************************************************)
Range(s) == {s[i] : i \in DOMAIN s}

\* the first place (from 1) of x in the list s
IndexOf(s, x) == CHOOSE i \in DOMAIN s : s[i] = x /\ \A j \in 1..(i - 1) : s[j] # x

RECURSIVE SetToList(_)
\* the elements of the set S in a list, in some order
SetToList(S) ==
    IF S = {} THEN <<>>
    ELSE LET x == CHOOSE x \in S : TRUE IN <<x>> \o SetToList(S \ {x})

\* the sequences of k distinct elements of S (the ordered size-k subsets)
Arrangements(S, k) ==
    {s \in [1..k -> S] : \A i, j \in 1..k : i # j => s[i] # s[j]}

IsPrimeNumber(n) == n >= 2 /\ \A d \in 2..(n-1) : n % d # 0

(***************************************************************************)
(* sv.py: named randomness sources.                                        *)
(***************************************************************************)
\* the seed a source gets when none is given: hash(rand_name)
DefaultSeed(rand_name) == <<"hash", rand_name>>

\* init_randomness_source that rewinds every source while it seeds one
init_randomness_source_all(rs, rand_name, new_seed) ==
    [n \in (DOMAIN rs) \cup {rand_name} |->
        IF n = rand_name THEN [seed |-> new_seed, n |-> 0]
        ELSE [seed |-> rs[n].seed, n |-> 0]]

\* init_randomness_source: the state stored under rand_name
init_randomness_source(rs, rand_name, new_seed) ==
    [n \in (DOMAIN rs) \cup {rand_name} |->
        IF n = rand_name THEN [seed |-> new_seed, n |-> 0] ELSE rs[n]]

\* the digests ds are what k successive calls of get_random_from_source
\* on rand_name read from the hash chain: those already revealed are fixed
DrawsAgree(rand_name, k, ds) ==
    LET st == randomness_sources[rand_name]
        chain == sha[st.seed]
    IN  /\ st.n + k <= MaxDraws
        /\ \A i \in 1..k : st.n + i <= Len(chain) => ds[i] = chain[st.n + i]

\* get_random_from_source called k times: the source advances, the chain grows
AfterDraws(rand_name, k, ds) ==
    LET st == randomness_sources[rand_name]
        chain == sha[st.seed]
        grown == [i \in 1..(IF st.n + k > Len(chain) THEN st.n + k ELSE Len(chain)) |->
                     IF i <= Len(chain) THEN chain[i] ELSE ds[i - st.n]]
    IN  /\ randomness_sources' =
            [randomness_sources EXCEPT ![rand_name] = [seed |-> st.seed, n |-> st.n + k]]
        /\ sha' = [sha EXCEPT ![st.seed] = grown]

\* the digests ds are what k calls of get_random_from_source read from the
\* hash chain of a source just seeded with seed
SeededDrawsAgree(seed, k, ds) ==
    seed \in DOMAIN sha =>
        \A i \in 1..k : i <= Len(sha[seed]) => ds[i] = sha[seed][i]

\* init_randomness_source(rand_name, seed), then k calls of
\* get_random_from_source(rand_name, ...) that read the digests ds
AfterSeededDraws(rand_name, seed, k, ds) ==
    LET chain == IF seed \in DOMAIN sha THEN sha[seed] ELSE <<>>
        grown == [i \in 1..(IF k > Len(chain) THEN k ELSE Len(chain)) |->
                     IF i <= Len(chain) THEN chain[i] ELSE ds[i]]
    IN  /\ randomness_sources' =
            [n \in (DOMAIN randomness_sources) \cup {rand_name} |->
                IF n = rand_name THEN [seed |-> seed, n |-> k]
                ELSE randomness_sources[n]]
        /\ sha' = [x \in (DOMAIN sha) \cup {seed} |->
                     IF x = seed THEN grown ELSE sha[x]]

(***************************************************************************)
(* sv.py: permutations.  A dict on range(g) is a function on 0..g-1.       *)
(***************************************************************************)
RECURSIVE FisherYates(_, _, _)
\* the loop of random_permutation from step i on; ds[i] is the digest that
\* get_random_from_source(rand_name, i+1) reduces modulo i+1
FisherYates(pi, i, ds) ==
    IF i > Len(pi) - 1 THEN pi
    ELSE LET j == ds[i] % (i + 1)
         IN  FisherYates([x \in 1..Len(pi) |->
                            IF x = i + 1 THEN pi[j + 1]
                            ELSE IF x = j + 1 THEN pi[i + 1]
                            ELSE pi[x]], i + 1, ds)

\* random_permutation that moves pi[j] to place i and leaves pi[j] as it is
random_permutation_copying(elts, ds) ==
    LET g == Len(elts)
        pi == [x \in 1..g |-> IF x = 1 THEN 0 ELSE ds[x - 1] % x]
    IN  [elt \in Range(elts) |-> elts[pi[IndexOf(elts, elt)] + 1]]

\* random_permutation(elts, rand_name) for the list elts, ds the
\* Len(elts) - 1 digests drawn
random_permutation(elts, ds) ==
    LET g == Len(elts)
        pi == FisherYates([x \in 1..g |-> x - 1], 1, ds)
    IN  [elt \in Range(elts) |-> elts[pi[IndexOf(elts, elt)] + 1]]

\* range(n)
range(n) == [x \in 1..n |-> x - 1]

\* inverse_permutation(perm)
inverse_permutation(perm) ==
    [elt \in Range(perm) |-> CHOOSE x \in DOMAIN perm : perm[x] = elt]

\* apply_permutation with the element of position elt moved to perm[elt]
apply_permutation_forward(perm, x) ==
    IF ~(DOMAIN x \subseteq DOMAIN perm /\ Range(perm) \subseteq DOMAIN x)
      THEN Raise("KeyError")
    ELSE Return([elt \in DOMAIN x |-> x[CHOOSE k \in DOMAIN perm : perm[k] = elt]])

\* apply_permutation(perm, x) for a dict x: a key that perm or x lacks is
\* a KeyError
apply_permutation(perm, x) ==
    IF \E elt \in DOMAIN x : elt \notin DOMAIN perm \/ perm[elt] \notin DOMAIN x
      THEN Raise("KeyError")
    ELSE Return([elt \in DOMAIN x |-> x[perm[elt]]])

(***************************************************************************)
(* sv.py: split-value pairs.                                               *)
(***************************************************************************)
\* get_sv_pair with u taken from the source without the reduction modulo M
get_sv_pair_unreduced(x, d, M) ==
    IF M < 2 THEN Raise("AssertionError")
    ELSE LET u == d
             v == (x - u) % M
         IN  Return(<<u, v>>)

\* get_sv_pair(x, rand_name, M), d the digest the source produced
get_sv_pair(x, d, M) ==
    IF M < 2 THEN Raise("AssertionError")
    ELSE LET u == d % M
             v == (x - u) % M
         IN  Return(<<u, v>>)

(***************************************************************************)
(* sv.py: polynomial secret sharing.                                       *)
(***************************************************************************)
RECURSIVE Horner(_, _, _, _)
\* y = ((y * x) + coefs[j]) % M for j = t-1 down to 0 (coefs is 1-based here)
Horner(coefs, j, x, M) ==
    IF j > Len(coefs) THEN 0
    ELSE (Horner(coefs, j + 1, x, M) * x + coefs[j]) % M

\* share(secret, n, t, rand_name, M), ds the t digests the source produced
share(secret, n, t, ds, M) ==
    IF ~(M > 1) THEN Raise("AssertionError")
    ELSE IF ~(0 <= secret /\ secret < M) THEN Raise("AssertionError")
    ELSE IF ~(1 < n /\ n <= M - 1) THEN Raise("AssertionError")
    ELSE IF ~(1 <= t /\ t <= n) THEN Raise("AssertionError")
    ELSE LET coefs == [j \in 1..t |-> IF j = 1 THEN secret ELSE ds[j] % M]
         IN  Return([x \in 1..n |-> <<x, Horner(coefs, 1, x, M)>>])

RECURSIVE PowMod(_, _, _)
\* pow(a, e, M)
PowMod(a, e, M) ==
    IF e = 0 THEN 1 % M
    ELSE IF e % 2 = 0 THEN PowMod((a * a) % M, e \div 2, M)
    ELSE (a * PowMod((a * a) % M, e \div 2, M)) % M

RECURSIVE ProdMod(_, _, _)
\* the product of f[j] over j in S, reduced modulo M
ProdMod(f, S, M) ==
    IF S = {} THEN 1 % M
    ELSE LET j == CHOOSE j \in S : TRUE
         IN  (f[j] * ProdMod(f, S \ {j}, M)) % M

RECURSIVE SumMod(_, _, _)
SumMod(f, S, M) ==
    IF S = {} THEN 0
    ELSE LET j == CHOOSE j \in S : TRUE
         IN  (f[j] + SumMod(f, S \ {j}, M)) % M

\* lagrange(share_list, n, t, M).  The code multiplies the factors as
\* integers and reduces at the end; the products here are reduced as they
\* are formed, and "denominator != 0" is "no factor is 0".
lagrange(share_list, n, t, M) ==
    IF ~(1 <= t /\ t <= n) THEN Raise("AssertionError")
    ELSE IF ~(n <= M - 1) THEN Raise("AssertionError")
    ELSE IF ~(Len(share_list) >= t) THEN Raise("AssertionError")
    ELSE LET x == [i \in 1..t |-> share_list[i][1]]
             y == [i \in 1..t |-> share_list[i][2]]
             numerator(i) ==
                 ProdMod([j \in 1..t |-> (0 - x[j]) % M], (1..t) \ {i}, M)
             factors(i) == [j \in 1..t |-> (x[i] - x[j]) % M]
             denominator(i) == ProdMod(factors(i), (1..t) \ {i}, M)
             nonzero(i) == \A j \in (1..t) \ {i} : factors(i)[j] # 0
             inverse(i) == PowMod(denominator(i), M - 2, M)
         IN  IF \E i \in 1..t : ~nonzero(i) THEN Raise("AssertionError")
             ELSE IF \E i \in 1..t : (denominator(i) * inverse(i)) % M # 1
                  THEN Raise("AssertionError")
             ELSE Return(SumMod([i \in 1..t |->
                                   (((y[i] * numerator(i)) % M) * inverse(i)) % M],
                                1..t, M))

(***************************************************************************)
(* sv_sbb.py: the secure bulletin board.  A Python value handed to post is *)
(* a record with its type; a dict is a function on its keys; a board entry *)
(* is the list [msg_header, msg_dict], or [msg_header] for an empty dict.  *)
(***************************************************************************)
PyNone == [type |-> "NoneType"]
PyStr(s) == [type |-> "str", s |-> s]
PyInt(i) == [type |-> "int", i |-> i]
PyDict(d) == [type |-> "dict", d |-> d]

\* bool(x) of Python for the values above
Truthy(x) ==
    CASE x.type = "NoneType" -> FALSE
      [] x.type = "dict" -> DOMAIN x.d # {}
      [] x.type = "str" -> x.s # ""
      [] x.type = "int" -> x.i # 0

\* time.strftime("%Y-%m-%dT%H:%M:%S%z") when the clock reads now
strftime(now) == <<"%Y-%m-%dT%H:%M:%S%z", now>>

\* d[k] = v on a dict
SetItem(d, k, v) == [x \in (DOMAIN d) \cup {k} |-> IF x = k THEN v ELSE d[x]]

\* SBB.post without the check that the board is still open
post_when_closed(self, msg_header, msg_dict, time_stamp, now) ==
    IF msg_header.type # "str" THEN Raise("AssertionError")
    ELSE LET d0 == IF ~Truthy(msg_dict) THEN PyDict(<<>>) ELSE msg_dict
         IN  IF d0.type # "dict" THEN Raise("AssertionError")
             ELSE IF "time" \in DOMAIN d0.d THEN Raise("AssertionError")
             ELSE IF "time_str" \in DOMAIN d0.d THEN Raise("AssertionError")
             ELSE LET d1 == IF time_stamp
                              THEN SetItem(d0.d, "time_iso8601", strftime(now))
                              ELSE d0.d
                      msg == IF DOMAIN d1 # {} THEN <<msg_header.s, d1>>
                                               ELSE <<msg_header.s>>
                  IN  Return([self EXCEPT !.board = Append(self.board, msg)])

\* SBB.post with the line "msg_dict['time_seconds'] = time.time()" active
post_time_seconds(self, msg_header, msg_dict, time_stamp, now) ==
    IF self.closed THEN Raise("AssertionError")
    ELSE IF msg_header.type # "str" THEN Raise("AssertionError")
    ELSE LET d0 == IF ~Truthy(msg_dict) THEN PyDict(<<>>) ELSE msg_dict
         IN  IF d0.type # "dict" THEN Raise("AssertionError")
             ELSE IF "time" \in DOMAIN d0.d THEN Raise("AssertionError")
             ELSE IF "time_str" \in DOMAIN d0.d THEN Raise("AssertionError")
             ELSE LET d1 == IF time_stamp
                              THEN SetItem(SetItem(d0.d, "time_seconds", now),
                                           "time_iso8601", strftime(now))
                              ELSE d0.d
                      msg == IF DOMAIN d1 # {} THEN <<msg_header.s, d1>>
                                               ELSE <<msg_header.s>>
                  IN  Return([self EXCEPT !.board = Append(self.board, msg)])

\* SBB.post(msg_header, msg_dict, time_stamp) when the clock reads now:
\* the exception raised, or the object after the call
post(self, msg_header, msg_dict, time_stamp, now) ==
    IF self.closed THEN Raise("AssertionError")
    ELSE IF msg_header.type # "str" THEN Raise("AssertionError")
    ELSE LET d0 == IF ~Truthy(msg_dict) THEN PyDict(<<>>) ELSE msg_dict
         IN  IF d0.type # "dict" THEN Raise("AssertionError")
             ELSE IF "time" \in DOMAIN d0.d THEN Raise("AssertionError")
             ELSE IF "time_str" \in DOMAIN d0.d THEN Raise("AssertionError")
             ELSE LET d1 == IF time_stamp
                              THEN SetItem(d0.d, "time_iso8601", strftime(now))
                              ELSE d0.d
                      msg == IF DOMAIN d1 # {} THEN <<msg_header.s, d1>>
                                               ELSE <<msg_header.s>>
                  IN  Return([self EXCEPT !.board = Append(self.board, msg)])

\* SBB.close()
close(self, now) ==
    LET posted == post(self, PyStr("sbb:close"), PyNone, TRUE, now)
    IN  IF posted.exc # NoExc THEN posted
        ELSE Return([posted.val EXCEPT !.closed = TRUE])

\* SBB(election_id): the object after __init__
SBB(election_id, now) ==
    post([board |-> <<>>, closed |-> FALSE, start_time |-> now],
         PyStr("sbb:open"), PyDict([election_id |-> election_id]), TRUE, now)

(***************************************************************************)
(* sv_verifier.py: the headers the verifier expects, in order.             *)
(***************************************************************************)
HEADER_LIST ==
    <<"sbb:open",
      "setup:start",
      "setup:races",
      "setup:voters",
      "setup:server-array",
      "setup:finished",
      "casting:votes",
      "tally:results",
      "proof:output_commitments",
      "proof:output_commitment_t_values",
      "proof:verifier_challenges",
      "proof:outcome_check",
      "proof:input_consistency:input_openings",
      "proof:input_consistency:output_openings",
      "proof:input_consistency:pik_for_k_in_icl",
      "election:done.",
      "sbb:close">>

\* the headers of the entries of a board, in order
Headers(board) == [i \in 1..Len(board) |-> board[i][1]]

(***************************************************************************)
(* sv.py: names of positions, rows and passes.  A Python string that the   *)
(* code iterates over is the sequence of its characters.                   *)
(***************************************************************************)
LowerCase == <<"a", "b", "c", "d", "e", "f", "g", "h", "i", "j", "k", "l", "m",
               "n", "o", "p", "q", "r", "s", "t", "u", "v", "w", "x", "y", "z">>
UpperCase == <<"A", "B", "C", "D", "E", "F", "G", "H", "I", "J", "K", "L", "M",
               "N", "O", "P", "Q", "R", "S", "T", "U", "V", "W", "X", "Y", "Z">>

\* s[:n] for n >= 0
Prefix(s, n) == SubSeq(s, 1, IF n < Len(s) THEN n ELSE Len(s))

RECURSIVE ZeroPad(_, _)
\* "%0<width>d" % x
ZeroPad(width, x) ==
    IF Len(ToString(x)) >= width THEN ToString(x)
    ELSE "0" \o ZeroPad(width - 1, x)

\* p_list(n_voters)
p_list(n_voters) ==
    [x \in 1..n_voters |-> "p" \o ZeroPad(Len(ToString(n_voters)), x - 1)]

\* row_list(rows)
row_list(rows) == Prefix(LowerCase, rows)

\* k_list(n_reps)
k_list(n_reps) == Prefix(UpperCase, n_reps)

(***************************************************************************)
(* sv_election.py: Election.__init__                                       *)
(***************************************************************************)
\* the asserts of Election.__init__ on election_parameters
ParametersAccepted(ep) ==
    /\ Len(ep.election_id) > 0
    /\ Len(ep.ballot_style) > 0
    /\ ep.n_voters > 0
    /\ 0 < ep.n_reps /\ ep.n_reps <= 26 /\ ep.n_reps % 2 = 0
    /\ ep.n_fail >= 0
    /\ ep.n_leak >= 0
    /\ ep.ballot_id_len > 0
    /\ ep.json_indent >= 0

\* the attributes Election.__init__ has set when it comes to start the board
CheckedParameters(ep) ==
    [election_parameters |-> ep,
     election_id |-> ep.election_id,
     ballot_style |-> ep.ballot_style,
     n_voters |-> ep.n_voters,
     p_list |-> p_list(ep.n_voters),
     n_reps |-> ep.n_reps,
     k_list |-> Prefix(UpperCase, ep.n_reps),
     n_fail |-> ep.n_fail,
     n_leak |-> ep.n_leak,
     ballot_id_len |-> ep.ballot_id_len,
     json_indent |-> ep.json_indent]

\* the parameters of SBB.__init__ after self
SBB_parameters == <<"election_id">>

\* a call f(*arguments) of a function with the given positional parameters
\* and no defaults: Python raises TypeError unless the numbers agree
CallRaises(parameters, arguments) ==
    IF Len(arguments) # Len(parameters) THEN "TypeError" ELSE NoExc

(***************************************************************************)
(* sv.py: bytes and integers.  A bytes value is the sequence of its bytes; *)
(* a str of the ballot style is a TLA+ string of lower-case letters and    *)
(* stars.                                                                  *)
(***************************************************************************)
\* ord(c) for a one-character string c
Ord(c) ==
    IF c = "*" THEN 42
    ELSE IF c = " " THEN 32
    ELSE IF c = "?" THEN 63
    ELSE IF \E i \in 1..26 : UpperCase[i] = c
           THEN 64 + (CHOOSE i \in 1..26 : UpperCase[i] = c)
    ELSE 96 + (CHOOSE i \in 1..26 : LowerCase[i] = c)

\* chr(b) for b < 128; characters outside the ballot alphabet print as "?"
Chr(b) ==
    IF b = 42 THEN "*"
    ELSE IF b = 32 THEN " "
    ELSE IF 65 <= b /\ b <= 90 THEN UpperCase[b - 64]
    ELSE IF 97 <= b /\ b <= 122 THEN LowerCase[b - 96]
    ELSE "?"

\* s.encode()
encode(s) == [i \in 1..Len(s) |-> Ord(SubSeq(s, i, i))]

RECURSIVE Join(_)
Join(chars) == IF chars = <<>> THEN "" ELSE Head(chars) \o Join(Tail(chars))

\* b.decode(): a byte above 127 is not UTF-8 on its own
decode(b) ==
    IF \E i \in 1..Len(b) : b[i] >= 128 THEN Raise("UnicodeDecodeError")
    ELSE Return(Join([i \in 1..Len(b) |-> Chr(b[i])]))

RECURSIVE bytes2int(_)
\* bytes2int(x): the first byte is the least significant
bytes2int(x) == IF x = <<>> THEN 0 ELSE Head(x) + 256 * bytes2int(Tail(x))

RECURSIVE int2bytes(_)
\* int2bytes(x) for x >= 0, minimum length (0 takes one byte)
int2bytes(x) ==
    IF x < 256 THEN <<x>> ELSE <<x % 256>> \o int2bytes(x \div 256)

RECURSIVE Power(_, _)
Power(b, e) == IF e = 0 THEN 1 ELSE b * Power(b, e - 1)

\* make_prime(n): is_prime is taken to answer exactly
make_prime(n) ==
    CHOOSE q \in n..(2 * n) :
        IsPrimeNumber(q) /\ \A r \in n..(q - 1) : ~IsPrimeNumber(r)

(***************************************************************************)
(* sv_race.py                                                              *)
(***************************************************************************)
AllStars(choice) == \A i \in 1..Len(choice) : SubSeq(choice, i, i) = "*"

Max(S) == CHOOSE m \in S : \A n \in S : n <= m

\* Race(election, race_id, choices): the object after __init__
Race(race_id, choices) ==
    [race_id |-> race_id,
     choices |-> choices,
     max_choice_len |-> Max({Len(encode(choices[c])) : c \in DOMAIN choices}),
     race_modulus |->
         make_prime(Power(256, Max({Len(encode(choices[c])) : c \in DOMAIN choices}))),
     tally |-> PyNone,
     rand_name |-> "random:" \o race_id]

\* race.is_valid_choice(choice)
is_valid_choice(race, choice) ==
    \/ choice \in Range(race.choices)
    \/ \E c \in DOMAIN race.choices :
          AllStars(race.choices[c]) /\ Len(choice) <= Len(race.choices[c])

\* race.choice_str2int(choice_str)
choice_str2int(race, choice_str) ==
    IF ~(bytes2int(encode(choice_str)) < race.race_modulus)
      THEN Raise("AssertionError")
      ELSE Return(bytes2int(encode(choice_str)))

\* race.choice_int2str(choice_int)
choice_int2str(race, choice_int) ==
    IF ~(0 <= choice_int /\ choice_int < race.race_modulus)
      THEN Raise("AssertionError")
    ELSE LET choice_str == decode(int2bytes(choice_int))
         IN  IF choice_str.exc # NoExc THEN choice_str
             ELSE IF ~is_valid_choice(race, choice_str.val)
                    THEN Raise("AssertionError")
             ELSE choice_str

(***************************************************************************)
(* sv_server.py: Server.__init__.  sdb[race_id][i][j] is a dict: a         *)
(* function on its keys.  The containers of per-voter data are typed       *)
(* values, PyDict or PyList.                                               *)
(***************************************************************************)
PyList(l) == [type |-> "list", l |-> l]

\* the server array with rows and threshold taken for each other
Grid_rows_for_threshold(n_fail, n_leak) ==
    IF n_fail > 0
      THEN [cols |-> 1 + n_leak, rows |-> 2 + n_leak, threshold |-> 2 + n_fail + n_leak]
      ELSE [cols |-> 1 + n_leak, rows |-> 1 + n_leak, threshold |-> 1 + n_leak]

\* rows, cols and threshold of the server array
Grid(n_fail, n_leak) ==
    IF n_fail > 0
      THEN [cols |-> 1 + n_leak, rows |-> 2 + n_fail + n_leak, threshold |-> 2 + n_leak]
      ELSE [cols |-> 1 + n_leak, rows |-> 1 + n_leak, threshold |-> 1 + n_leak]

\* sdb[race_id][i][j][k] as __init__ leaves it
NewPassCell(j, cols) ==
    [key \in {"x", "y"} \cup
              (IF j = cols - 1 THEN {"u", "v", "ru", "rv", "pair"} ELSE {})
        |-> PyDict(<<>>)]

\* sdb[race_id][i][j] as __init__ leaves it
NewCell(race_id, i, j, cols, ks) ==
    [key \in {"rand_name"} \cup Range(ks) \cup
              (IF j = 0 THEN {"ballot_id", "cast_votes", "x", "u", "v", "ru", "rv"}
                        ELSE {})
        |-> IF key = "rand_name"
              THEN "server:" \o race_id \o ":" \o i \o ":" \o ToString(j)
            ELSE IF key \in Range(ks) THEN NewPassCell(j, cols)
            ELSE PyDict(<<>>)]

\* Server(election, n_fail, n_leak): the object after __init__
Server(race_ids, ks, n_fail, n_leak) ==
    LET g == Grid(n_fail, n_leak)
    IN  IF ~(n_fail >= 0) \/ ~(n_leak >= 0) \/ ~(g.rows <= 26)
          THEN Raise("AssertionError")
          ELSE Return(
            [n_fail |-> n_fail,
             n_leak |-> n_leak,
             cols |-> g.cols,
             rows |-> g.rows,
             threshold |-> g.threshold,
             row_list |-> Prefix(LowerCase, g.rows),
             sdb |-> [race_id \in Range(race_ids) |->
                        [i \in Range(Prefix(LowerCase, g.rows)) |->
                           [j \in 0..(g.cols - 1) |->
                              NewCell(race_id, i, j, g.cols, ks)]]]])

\* the randomness sources Server.__init__ seeds: one for each race, row, column
ServerSources(server) ==
    {server.sdb[race_id][i][j]["rand_name"] :
        race_id \in DOMAIN server.sdb, i \in Range(server.row_list),
        j \in 0..(server.cols - 1)}

\* the entry "setup:server-array" that Server.__init__ posts
ServerArrayPost(n_reps, server) ==
    [rows |-> server.rows, cols |-> server.cols,
     n_reps |-> n_reps, threshold |-> server.threshold]

(***************************************************************************)
(* sv_election.py: the rest of Election.__init__, from the board on.       *)
(***************************************************************************)
\* setup_races: the Race objects
setup_races(ballot_style) ==
    [r \in 1..Len(ballot_style) |-> Race(ballot_style[r][1], ballot_style[r][2])]

\* the payload of "setup:races"
RaceList(races) ==
    [r \in 1..Len(races) |->
        [race_id |-> races[r].race_id,
         choices |-> races[r].choices,
         race_modulus |-> races[r].race_modulus]]

\* the board after Election.__init__, had SBB(election_id) been called and
\* every post been made when the clock read now
SetupBoard(e, races, server, now) ==
    LET s0 == SBB(e.election_id, now).val
        s1 == post(s0, PyStr("setup:start"),
                   PyDict([about |-> "about", election_id |-> e.election_id,
                           legend |-> "legend"]), TRUE, now).val
        s2 == post(s1, PyStr("setup:races"),
                   PyDict([ballot_style_race_list |-> RaceList(races)]), FALSE, now).val
        s3 == post(s2, PyStr("setup:voters"),
                   PyDict([n_voters |-> e.n_voters,
                           ballot_id_len |-> e.ballot_id_len]), FALSE, now).val
        s4 == post(s3, PyStr("setup:server-array"),
                   PyDict(ServerArrayPost(e.n_reps, server)), FALSE, now).val
    IN  post(s4, PyStr("setup:finished"), PyNone, TRUE, now).val

\* the Election object after __init__ on parameters ep that it accepts,
\* with the board started by SBB(election_id)
Election(ep, now) ==
    LET e == CheckedParameters(ep)
        races == setup_races(ep.ballot_style)
        race_ids == [r \in 1..Len(ep.ballot_style) |-> ep.ballot_style[r][1]]
        server == Server(race_ids, e.k_list, ep.n_fail, ep.n_leak).val
    IN  [election_parameters |-> ep,
         election_id |-> e.election_id,
         ballot_style |-> e.ballot_style,
         n_voters |-> e.n_voters,
         p_list |-> e.p_list,
         n_reps |-> e.n_reps,
         k_list |-> e.k_list,
         n_fail |-> e.n_fail,
         n_leak |-> e.n_leak,
         ballot_id_len |-> e.ballot_id_len,
         json_indent |-> e.json_indent,
         sbb |-> SetupBoard(e, races, server, now),
         races |-> races,
         race_ids |-> race_ids,
         voter_ids |-> [v \in 1..e.n_voters |-> "voter:" \o ToString(v - 1)],
         cast_votes |-> PyDict(<<>>),
         server |-> server,
         output_commitments |-> PyDict(<<>>)]

(***************************************************************************)
(* SpecSv: a caller of sv.py.  It seeds a source, then splits values,      *)
(* shares secrets and reconstructs them, one call at a time, in any order  *)
(* and with any arguments of the right type.                               *)
(***************************************************************************)
SourceNames == {"test"}

SvInit ==
    /\ randomness_sources =
           init_randomness_source(<<>>, "test", DefaultSeed("test"))
    /\ sha = [s \in {DefaultSeed(n) : n \in SourceNames} |-> <<>>]
    /\ op = ""
    /\ arg = <<>>
    /\ ret = Return(<<>>)
    /\ sbb = <<>>
    /\ clock = <<>>
    /\ election = <<>>
    /\ votes = <<>>
    /\ pc = ""
    /\ err = NoExc

\* init_randomness_source(rand_name)
SvInitSource ==
    \E rand_name \in SourceNames :
        /\ op = ""
        /\ randomness_sources' =
               init_randomness_source(randomness_sources, rand_name, DefaultSeed(rand_name))
        /\ op' = "init_randomness_source"
        /\ arg' = [rand_name |-> rand_name]
        /\ ret' = Return(<<>>)
        /\ UNCHANGED <<sha, sbbVars, runVars>>

\* get_sv_pair(x, rand_name, M)
SvGetSvPair ==
    \E x \in (0 - MaxModulus)..(2 * MaxModulus), M \in 1..MaxModulus,
       rand_name \in DOMAIN randomness_sources, d \in Digest :
        /\ op = ""
        /\ op' = "get_sv_pair"
        /\ arg' = [x |-> x, rand_name |-> rand_name, M |-> M]
        /\ ret' = get_sv_pair(x, d, M)
        /\ UNCHANGED <<sbbVars, runVars>>
        /\ IF M < 2
              THEN d = 0 /\ UNCHANGED <<randomness_sources, sha>>
              ELSE DrawsAgree(rand_name, 1, <<d>>) /\ AfterDraws(rand_name, 1, <<d>>)

\* share(secret, n, t, rand_name, M)
SvShare ==
    \E M \in 2..MaxModulus, n \in 1..MaxShares, t \in 1..MaxShares,
       rand_name \in DOMAIN randomness_sources :
      \E secret \in 0..M :
        /\ op = ""
        /\ op' = "share"
        /\ arg' = [secret |-> secret, n |-> n, t |-> t,
                   rand_name |-> rand_name, M |-> M]
        /\ UNCHANGED <<sbbVars, runVars>>
        /\ IF share(secret, n, t, [j \in 1..t |-> 0], M).exc # NoExc
              THEN /\ ret' = share(secret, n, t, [j \in 1..t |-> 0], M)
                   /\ UNCHANGED <<randomness_sources, sha>>
              ELSE \E ds \in [1..t -> Digest] :
                   /\ DrawsAgree(rand_name, t, ds)
                   /\ AfterDraws(rand_name, t, ds)
                   /\ ret' = share(secret, n, t, ds, M)

\* the list s in reverse order
Reverse(s) == [i \in 1..Len(s) |-> s[Len(s) + 1 - i]]

\* lagrange(share_list, n, t, M) on the list that share has just returned,
\* truncated to some length and possibly reversed (as test_lagrange does)
SvLagrange ==
    /\ op = "share"
    /\ ret.exc = NoExc
    /\ \E k \in 1..arg.n, reversed \in BOOLEAN :
            LET whole == IF reversed THEN Reverse(ret.val) ELSE ret.val
                share_list == SubSeq(whole, 1, k)
            IN  /\ op' = "lagrange"
                /\ arg' = [share_list |-> share_list, n |-> arg.n, t |-> arg.t,
                           M |-> arg.M, secret |-> arg.secret]
                /\ ret' = lagrange(share_list, arg.n, arg.t, arg.M)
                /\ UNCHANGED <<svVars, sbbVars, runVars>>

\* the caller is done with the result and ready for its next call
SvDone ==
    /\ op # ""
    /\ op' = ""
    /\ arg' = <<>>
    /\ ret' = Return(<<>>)
    /\ UNCHANGED <<svVars, sbbVars, runVars>>

SvNext == SvInitSource \/ SvGetSvPair \/ SvShare \/ SvLagrange \/ SvDone

SpecSv == SvInit /\ [][SvNext]_vars

(***************************************************************************)
(* Claims about sv.py, checked under SpecSv.                               *)
(***************************************************************************)
\* the arguments of the last call are in the domain claim C9 states: M prime,
\* secret in [0, M), 1 <= t <= n <= M-1
C9_Domain ==
    /\ IsPrimeNumber(arg.M)
    /\ 0 <= arg.secret /\ arg.secret < arg.M
    /\ 1 <= arg.t /\ arg.t <= arg.n /\ arg.n <= arg.M - 1

\* C9: for every prime M, secret in [0, M) and 1 <= t <= n <= M-1, share
\* returns a list of which every t distinct shares, in any order, are
\* reconstructed by lagrange to the secret.
C9_ShareLagrangeRoundTrip ==
    (op = "share" /\ C9_Domain) =>
        /\ ret.exc = NoExc
        /\ \A pick \in Arrangements(1..arg.n, arg.t) :
              lagrange([i \in 1..arg.t |-> ret.val[pick[i]]],
                       arg.n, arg.t, arg.M) = Return(arg.secret)

\* C10 as stated: for any x and M >= 2, get_sv_pair returns (u, v) with
\* 0 <= u, v < M and (u + v) mod M = x.
C10_SumIsX ==
    (op = "get_sv_pair" /\ arg.M >= 2) =>
        /\ ret.exc = NoExc
        /\ 0 <= ret.val[1] /\ ret.val[1] < arg.M
        /\ 0 <= ret.val[2] /\ ret.val[2] < arg.M
        /\ (ret.val[1] + ret.val[2]) % arg.M = arg.x

\* C10 amended: for any x and M >= 2, get_sv_pair returns (u, v) with
\* 0 <= u, v < M and (u + v) mod M = x mod M.
C10_SumIsXModM ==
    (op = "get_sv_pair" /\ arg.M >= 2) =>
        /\ ret.exc = NoExc
        /\ 0 <= ret.val[1] /\ ret.val[1] < arg.M
        /\ 0 <= ret.val[2] /\ ret.val[2] < arg.M
        /\ (ret.val[1] + ret.val[2]) % arg.M = arg.x % arg.M

\* get_sv_pair has returned a pair for an x outside [0, M) and a u > 0
C10_Witness ==
    /\ op = "get_sv_pair"
    /\ arg.M >= 2
    /\ arg.x >= arg.M
    /\ ret.exc = NoExc
    /\ ret.val[1] > 0

\* C24: share accepts every (n, t) with 1 <= t <= n <= M-1, n = 1 included
\* (the configuration n_fail = 0, n_leak = 0 has rows = threshold = 1): it
\* returns n shares.
C24_ShareAcceptsOneShare ==
    (/\ op = "share"
     /\ arg.M > 1
     /\ 0 <= arg.secret /\ arg.secret < arg.M
     /\ 1 <= arg.t /\ arg.t <= arg.n /\ arg.n <= arg.M - 1) =>
        /\ ret.exc = NoExc
        /\ Len(ret.val) = arg.n

\* what the code does instead: share returns shares exactly for
\* 1 < n <= M-1 and 1 <= t <= n, and raises AssertionError otherwise, n = 1
\* included
ShareRequiresTwoShares ==
    op = "share" =>
        /\ (ret.exc = NoExc) =
              (/\ 0 <= arg.secret /\ arg.secret < arg.M
               /\ 1 < arg.n /\ arg.n <= arg.M - 1
               /\ 1 <= arg.t /\ arg.t <= arg.n)
        /\ ret.exc # NoExc => ret.exc = "AssertionError"

(***************************************************************************)
(* SpecSbb: two runs of one program that uses a bulletin board.  The runs  *)
(* make the same calls with the same arguments; each run reads its own     *)
(* wall clock, which advances on its own.                                  *)
(***************************************************************************)
Runs == {1, 2}

\* what the caller passes as msg_header and msg_dict
PostHeaders == {PyStr("tally:results"), PyInt(7)}
PostDicts ==
    {PyNone, PyDict(<<>>), PyDict([election_id |-> "e"]), PyDict([time |-> "noon"]),
     PyDict([time_str |-> "noon"]), PyStr("text")}

SbbInit ==
    /\ clock \in [Runs -> 0..MaxClock]
    /\ sbb = [r \in Runs |-> SBB("e", clock[r]).val]
    /\ op = "SBB"
    /\ arg = [election_id |-> "e"]
    /\ ret = [r \in Runs |-> NoExc]
    /\ randomness_sources = <<>>
    /\ sha = <<>>
    /\ election = <<>>
    /\ votes = <<>>
    /\ pc = ""
    /\ err = NoExc

\* a second passes on the clock of run r
SbbTick ==
    \E r \in Runs :
        /\ clock[r] < MaxClock
        /\ clock' = [clock EXCEPT ![r] = @ + 1]
        /\ UNCHANGED <<sbb, callVars, svVars, runVars>>

\* the object of run r after a call that returned res
AfterCall(r, res) == IF res.exc = NoExc THEN res.val ELSE sbb[r]

\* sbb.post(msg_header, msg_dict, time_stamp) in both runs
SbbPost ==
    \E msg_header \in PostHeaders, msg_dict \in PostDicts, time_stamp \in BOOLEAN :
        /\ \A r \in Runs : sbb[r].closed \/ Len(sbb[r].board) < MaxBoard
        /\ sbb' = [r \in Runs |->
                     AfterCall(r, post(sbb[r], msg_header, msg_dict, time_stamp, clock[r]))]
        /\ op' = "post"
        /\ arg' = [msg_header |-> msg_header, msg_dict |-> msg_dict,
                   time_stamp |-> time_stamp]
        /\ ret' = [r \in Runs |->
                     post(sbb[r], msg_header, msg_dict, time_stamp, clock[r]).exc]
        /\ UNCHANGED <<clock, svVars, runVars>>

\* sbb.close() in both runs
SbbClose ==
    /\ \A r \in Runs : sbb[r].closed \/ Len(sbb[r].board) < MaxBoard
    /\ sbb' = [r \in Runs |-> AfterCall(r, close(sbb[r], clock[r]))]
    /\ op' = "close"
    /\ arg' = <<>>
    /\ ret' = [r \in Runs |-> close(sbb[r], clock[r]).exc]
    /\ UNCHANGED <<clock, svVars, runVars>>

SbbNext == SbbTick \/ SbbPost \/ SbbClose

SpecSbb == SbbInit /\ [][SbbNext]_vars

(***************************************************************************)
(* Claims about the bulletin board, checked under SpecSbb.                 *)
(***************************************************************************)
Last(s) == s[Len(s)]

\* a step of post or close (the clock stands still) on the board of run r
C8_Step(r) ==
    LET before == sbb[r].board
        after == sbb'[r].board
    IN  clock' = clock =>
          /\ Len(after) >= Len(before)
          /\ SubSeq(after, 1, Len(before)) = before
          /\ (~sbb[r].closed /\ ret'[r] = NoExc) =>
                /\ Len(after) = Len(before) + 1
                /\ op' = "post" => Last(after)[1] = arg'.msg_header.s
                /\ op' = "close" => Last(after)[1] = "sbb:close" /\ sbb'[r].closed
          /\ ret'[r] # NoExc => sbb'[r] = sbb[r]
          /\ sbb[r].closed => ret'[r] = "AssertionError"

\* C8: the board is append-only: a post appends exactly one entry and leaves
\* the earlier ones as they were; the first entry is always 'sbb:open';
\* close appends 'sbb:close' as the last entry; a post after close fails
\* and leaves the board unchanged.
C8_AppendOnly ==
    /\ [](\A r \in Runs :
            /\ sbb[r].board[1][1] = "sbb:open"
            /\ sbb[r].closed => Last(sbb[r].board)[1] = "sbb:close")
    /\ [][\A r \in Runs : C8_Step(r)]_vars

\* a post has been tried on a closed board that holds a posted entry
C8_Witness ==
    /\ op = "post"
    /\ sbb[1].closed
    /\ ret[1] = "AssertionError"
    /\ Len(sbb[1].board) = 3
    /\ sbb[1].board[2][1] = "tally:results"

SameButTime(e1, e2) ==
    /\ Len(e1) = Len(e2)
    /\ e1[1] = e2[1]
    /\ Len(e1) = 2 =>
          /\ DOMAIN e1[2] = DOMAIN e2[2]
          /\ \A k \in DOMAIN e1[2] \ {"time_iso8601"} : e1[2][k] = e2[2][k]

HonestShares(secret, rows, threshold, c, M) ==
    LET coefs == [j \in 1..threshold |-> IF j = 1 THEN secret ELSE c % M]
    IN  [x \in 1..rows |-> Horner(coefs, 1, x, M)]

\* the index of race_id in election.races
RaceIndex(e, race_id) == CHOOSE r \in 1..Len(e.race_ids) : e.race_ids[r] = race_id

\* the Race object of race_id
RaceOf(e, race_id) == e.races[RaceIndex(e, race_id)]

\* the row number (from 1) of row i
RowNumber(i) == CHOOSE n \in 1..Len(LowerCase) : SubSeq(LowerCase, n, n) = i

\* the election e with the shares of the voters' choices in the first column
WithCastVotes(e, vs, c) ==
    LET server == e.server
        xs(race_id, p) ==
            HonestShares(choice_str2int(RaceOf(e, race_id), vs[race_id][p]).val,
                         server.rows, server.threshold, c,
                         RaceOf(e, race_id).race_modulus)
        sdb == [race_id \in DOMAIN server.sdb |->
                  [i \in DOMAIN server.sdb[race_id] |->
                     [server.sdb[race_id][i] EXCEPT
                        ![0] = [@ EXCEPT
                          !["x"] = PyDict([p \in Range(e.p_list) |->
                                             xs(race_id, p)[RowNumber(i)]])]]]]
    IN  [e EXCEPT !.server = [server EXCEPT !.sdb = sdb]]

\* sv_race.WRITE_INS
WRITE_INS == <<"Donald Duck", "Lizard People", "Mickey Mouse">>

\* the choices race.random_choice() can return: a listed choice, or one of
\* WRITE_INS cut to the length of the write-in slot
VoterChoices(race) ==
    UNION {IF ~AllStars(race.choices[c])
             THEN {race.choices[c]}
             ELSE {Prefix(WRITE_INS[w], Len(race.choices[c])) : w \in DOMAIN WRITE_INS} :
           c \in DOMAIN race.choices}

RECURSIVE VotesOfRaces(_, _)
\* the ways the voters can vote in the first r races
VotesOfRaces(e, r) ==
    IF r = 0 THEN {<<>>}
    ELSE {(e.race_ids[r] :> f) @@ vs :
            f \in [Range(e.p_list) -> VoterChoices(e.races[r])],
            vs \in VotesOfRaces(e, r - 1)}

\* the ways n_voters voters can vote on the ballot style
VoteSets(e) == VotesOfRaces(e, Len(e.race_ids))

\* ballot styles: none, one race, two races of which one takes write-ins
BallotStyles == {<<>>, <<<<"taxes", <<"y", "n">>>>>>,
                 <<<<"taxes", <<"y", "n">>>>, <<"mayor", <<"t", "*">>>>>>}

\* election parameters that Election.__init__ accepts
AcceptedParameters ==
    {ep \in [election_id : {"default_election"},
             ballot_style : BallotStyles,
             n_voters : 1..MaxVoters,
             n_reps : 1..MaxReps,
             n_fail : 0..MaxFail,
             n_leak : 0..MaxLeak,
             ballot_id_len : {32},
             json_indent : {0}] : ParametersAccepted(ep)}

(***************************************************************************)
(* SpecMix: Server.mix on an election as Election.__init__ builds it, with *)
(* or without the cast votes in the first column.                          *)
(***************************************************************************)
MixInit ==
    /\ arg \in AcceptedParameters
    /\ \E e \in {Election(arg, 0)}, c \in Digest :
         /\ votes \in VoteSets(e)
         /\ election \in {WithCastVotes(e, votes, c)} \cup (IF c = 0 THEN {e} ELSE {})
    /\ op = ""
    /\ ret = Return(<<>>)
    /\ pc = "server.mix"
    /\ err = NoExc
    /\ sbb = <<>>
    /\ clock = <<>>
    /\ randomness_sources = <<>>
    /\ sha = <<>>

\* x[:] for the Python value x: a list is copied; a dict takes no slice
\* (TypeError, or KeyError where a slice can be hashed)
SliceCopy(x) ==
    IF x.type = "list" THEN {Return(x)}
    ELSE {Raise("TypeError"), Raise("KeyError")}

\* the first loop of Server.mix: sdb[race_id][i][0][k]['x'] = x[:] for every
\* race, pass and row, left at the first copy that raises
ReplicateInput(e) ==
    LET cell(race_id, i) == e.server.sdb[race_id][i][0]
        copies == {SliceCopy(cell(race_id, i)["x"]) :
                     race_id \in Range(e.race_ids), i \in Range(e.server.row_list)}
        raised == UNION {{r \in c : r.exc # NoExc} : c \in copies}
        sdb == [race_id \in DOMAIN e.server.sdb |->
                  [i \in DOMAIN e.server.sdb[race_id] |->
                     [e.server.sdb[race_id][i] EXCEPT
                        ![0] = [key \in DOMAIN @ |->
                                  IF key \in Range(e.k_list)
                                    THEN [@[key] EXCEPT !["x"] = cell(race_id, i)["x"]]
                                    ELSE @[key]]]]]
    IN  IF raised # {} /\ e.k_list # <<>>
          THEN raised
          ELSE {Return([e EXCEPT !.server = [e.server EXCEPT !.sdb = sdb]])}

\* Server.mix.  Its first loop copies the first column's x with x[:], which
\* no dict allows.  The loops after it (permutations, fuzz, columns) index
\* the lists that the first loop has made; they are reached only when every
\* copy has succeeded.
ServerMix ==
    /\ pc = "server.mix"
    /\ \E r \in ReplicateInput(election) :
         IF r.exc # NoExc
           THEN /\ err' = r.exc
                /\ pc' = "raised"
                /\ election' = election
           ELSE /\ err' = err
                /\ pc' = "mix:permutations"
                /\ election' = r.val
    /\ op' = "mix"
    /\ UNCHANGED <<arg, ret, votes, sbbVars, svVars>>

MixNext == ServerMix

SpecMix == MixInit /\ [][MixNext]_vars

(***************************************************************************)
(* Claims about the mix, checked under SpecMix.                            *)
(***************************************************************************)
\* the value that the rows' entries at position p of the dicts ys[i]
\* reconstruct to, with the parameters n and t handed to lagrange
Reconstructed(e, race_id, ys, p, n, t) ==
    lagrange([row \in 1..e.server.rows |-> <<row, ys[e.server.row_list[row]].d[p]>>],
             n, t, RaceOf(e, race_id).race_modulus)

\* the number of positions p at which f[p] = v
Count(f, v) == Cardinality({p \in DOMAIN f : f[p] = v})

\* the choices of the voters in a race, as integers
ChoiceInts(e, race_id) ==
    [p \in Range(e.p_list) |->
        choice_str2int(RaceOf(e, race_id), votes[race_id][p]).val]

\* the final column of pass k reconstructs to the voters' choices, each as
\* many times as it was cast
FinalColumnIsVotes(e, race_id, k) ==
    LET ys == [i \in Range(e.server.row_list) |->
                 e.server.sdb[race_id][i][e.server.cols - 1][k]["y"]]
        out == [p \in Range(e.p_list) |->
                  Reconstructed(e, race_id, ys, p, e.server.rows, e.server.threshold)]
    IN  /\ \A p \in Range(e.p_list) : out[p].exc = NoExc
        /\ \A p \in Range(e.p_list) :
             Count([q \in Range(e.p_list) |-> out[q].val], out[p].val)
               = Count(ChoiceInts(e, race_id), out[p].val)

\* C4: the mix preserves the Lagrange value, so that after Server.mix, for
\* every race and every pass, the values reconstructed from the final column
\* are the voters' choice_int values, each as many times as it was cast.
C4_MixPreservesLagrange ==
    op = "mix" =>
        /\ err = NoExc
        /\ pc = "mixed" =>
             \A race_id \in Range(election.race_ids), k \in Range(election.k_list) :
                 FinalColumnIsVotes(election, race_id, k)

(***************************************************************************)
(* sv_tally.py                                                             *)
(***************************************************************************)
RECURSIVE BytesLess(_, _)
\* a < b for bytes (and for the strings they encode)
BytesLess(a, b) ==
    IF b = <<>> THEN FALSE
    ELSE IF a = <<>> THEN TRUE
    ELSE IF Head(a) # Head(b) THEN Head(a) < Head(b)
    ELSE BytesLess(Tail(a), Tail(b))

RECURSIVE sorted(_)
\* sorted(l) for a list of strings
sorted(l) ==
    IF l = <<>> THEN <<>>
    ELSE LET least == CHOOSE i \in DOMAIN l :
                        /\ \A j \in DOMAIN l : ~BytesLess(encode(l[j]), encode(l[i]))
                        /\ \A j \in 1..(i - 1) : l[j] # l[i]
         IN  <<l[least]>> \o sorted([j \in 1..(Len(l) - 1) |->
                                       IF j < least THEN l[j] ELSE l[j + 1]])

\* the first exception in a list of results, "" if there is none
FirstExc(results) ==
    IF \A i \in DOMAIN results : results[i].exc = NoExc THEN NoExc
    ELSE results[CHOOSE i \in DOMAIN results :
                    /\ results[i].exc # NoExc
                    /\ \A j \in 1..(i - 1) : results[j].exc = NoExc].exc

\* compute_tally, the body of "for k": the sorted choice_str_list of pass k
PassChoices(e, race, k) ==
    LET server == e.server
        choice_int(p) ==
            lagrange([row \in 1..Len(server.row_list) |->
                        <<row, server.sdb[race.race_id][server.row_list[row]]
                                         [server.cols - 1][k]["y"].d[p]>>],
                     e.n_voters, server.threshold, race.race_modulus)
        choice_int_list == [x \in 1..Len(e.p_list) |-> choice_int(e.p_list[x])]
        choice_str_list ==
            [x \in 1..Len(e.p_list) |-> choice_int2str(race, choice_int_list[x].val)]
    IN  IF FirstExc(choice_int_list) # NoExc THEN Raise(FirstExc(choice_int_list))
        ELSE IF FirstExc(choice_str_list) # NoExc THEN Raise(FirstExc(choice_str_list))
        ELSE Return(sorted([x \in 1..Len(e.p_list) |-> choice_str_list[x].val]))

\* the tally of the race from its last pass, the passes not compared
RaceTally_last_pass(e, race) ==
    LET lists == [x \in 1..Len(e.k_list) |-> PassChoices(e, race, e.k_list[x])]
        choice_str_list == lists[Len(e.k_list)].val
        keys == {race.choices[c] : c \in {c \in DOMAIN race.choices :
                                            ~AllStars(race.choices[c])}}
                \cup Range(choice_str_list)
    IN  IF FirstExc(lists) # NoExc THEN Raise(FirstExc(lists))
        ELSE Return([choice_str \in keys |->
                       Cardinality({x \in DOMAIN choice_str_list :
                                      choice_str_list[x] = choice_str})])

\* compute_tally, the body of "for race": the tally of the race
RaceTally(e, race) ==
    LET lists == [x \in 1..Len(e.k_list) |-> PassChoices(e, race, e.k_list[x])]
        checked == [x \in 1..Len(e.k_list) |->
                      IF lists[x].exc # NoExc THEN lists[x]
                      ELSE IF x > 1 /\ lists[x].val # lists[1].val
                             THEN Raise("AssertionError")
                      ELSE lists[x]]
        choice_str_list == lists[Len(e.k_list)].val
        keys == {race.choices[c] : c \in {c \in DOMAIN race.choices :
                                            ~AllStars(race.choices[c])}}
                \cup Range(choice_str_list)
    IN  IF FirstExc(checked) # NoExc THEN Raise(FirstExc(checked))
        ELSE Return([choice_str \in keys |->
                       Cardinality({x \in DOMAIN choice_str_list :
                                      choice_str_list[x] = choice_str})])

RECURSIVE TallyRaces(_, _, _)
\* compute_tally from race r on: the election with the tallies made before
\* the first exception, and that exception
TallyRaces(e, r, tally) ==
    IF r > Len(e.races) THEN [exc |-> NoExc, val |-> [e EXCEPT !.tally = tally]]
    ELSE LET t == RaceTally(e, e.races[r])
         IN  IF t.exc # NoExc
               THEN [exc |-> t.exc, val |-> [e EXCEPT !.tally = tally]]
               ELSE TallyRaces([e EXCEPT !.races[r].tally = t.val], r + 1,
                               (e.races[r].race_id :> t.val) @@ tally)

\* compute_tally(election)
compute_tally(e) == TallyRaces(e, 1, <<>>)

\* post_tally(election): the board after it
post_tally(e, now) ==
    post(e.sbb, PyStr("tally:results"),
         PyDict([election_id |-> e.election_id, tally |-> e.tally]), TRUE, now)

(***************************************************************************)
(* SpecTally: compute_tally and post_tally on an election whose final      *)
(* column holds an honest mix of the cast votes.                           *)
(***************************************************************************)
\* the election e after an honest mix: in pass k the final column holds, at
\* position p, fresh shares of the vote cast at the position that the mix
\* of pass k moved to p (here: p moved on by shift positions in each pass)
WithMixedVotes(e, vs, c, shift) ==
    LET server == e.server
        from(k, p) == e.p_list[((IndexOf(e.p_list, p) - 1 + shift * IndexOf(e.k_list, k))
                                  % e.n_voters) + 1]
        ys(race_id, k, p) ==
            HonestShares(choice_str2int(RaceOf(e, race_id), vs[race_id][from(k, p)]).val,
                         server.rows, server.threshold, c + IndexOf(e.k_list, k),
                         RaceOf(e, race_id).race_modulus)
        sdb == [race_id \in DOMAIN server.sdb |->
                  [i \in DOMAIN server.sdb[race_id] |->
                     [server.sdb[race_id][i] EXCEPT
                        ![server.cols - 1] = [key \in DOMAIN @ |->
                            IF key \in Range(e.k_list)
                              THEN [@[key] EXCEPT
                                      !["y"] = PyDict([p \in Range(e.p_list) |->
                                                  ys(race_id, key, p)[RowNumber(i)]])]
                              ELSE @[key]]]]]
    IN  [e EXCEPT !.server = [server EXCEPT !.sdb = sdb]]

\* run_election sets election.tally in compute_tally; before, there is none
NoTally(e) == [key \in DOMAIN e \cup {"tally"} |-> IF key = "tally" THEN PyNone ELSE e[key]]

TallyInit ==
    /\ arg \in AcceptedParameters
    /\ \E e \in {Election(arg, 0)}, c \in Digest, shift \in 0..(arg.n_voters - 1) :
         /\ votes \in VoteSets(e)
         /\ \E cast \in {WithCastVotes(e, votes, c)} :
              \E mixed \in {WithMixedVotes(cast, votes, c, shift)} :
                 election = NoTally(mixed)
    /\ op = ""
    /\ ret = Return(<<>>)
    /\ pc = "compute_tally"
    /\ err = NoExc
    /\ sbb = <<>>
    /\ clock = <<0>>
    /\ randomness_sources = <<>>
    /\ sha = <<>>

\* sv_tally.compute_tally(self)
TallyCompute ==
    /\ pc = "compute_tally"
    /\ \E r \in {compute_tally(election)} :
         /\ election' = r.val
         /\ err' = r.exc
         /\ pc' = IF r.exc = NoExc THEN "post_tally" ELSE "raised"
    /\ op' = "compute_tally"
    /\ UNCHANGED <<arg, ret, votes, sbbVars, svVars>>

\* sv_tally.post_tally(self)
TallyPost ==
    /\ pc = "post_tally"
    /\ \E r \in {post_tally(election, clock[1])} :
         /\ election' = [election EXCEPT !.sbb = r.val]
         /\ err' = r.exc
         /\ pc' = IF r.exc = NoExc THEN "print_tally" ELSE "raised"
    /\ op' = "post_tally"
    /\ UNCHANGED <<arg, ret, votes, sbbVars, svVars>>

TallyNext == TallyCompute \/ TallyPost

SpecTally == TallyInit /\ [][TallyNext]_vars

(***************************************************************************)
(* Claims about the tally, checked under SpecTally.                        *)
(***************************************************************************)
\* the number of voters who cast choice_str in the race
VotesCast(race_id, choice_str) ==
    Cardinality({p \in DOMAIN votes[race_id] : votes[race_id][p] = choice_str})

\* the count of choice_str in a tally; a choice the tally does not list
\* counts as 0
Counted(tally, choice_str) ==
    IF choice_str \in DOMAIN tally THEN tally[choice_str] ELSE 0

\* the tally of the race counts every choice as often as it was cast
TallyIsVotes(tally, race) ==
    /\ \A choice_str \in DOMAIN tally \cup VoterChoices(race) :
         Counted(tally, choice_str) = VotesCast(race.race_id, choice_str)
    /\ SumMod(tally, DOMAIN tally, election.n_voters + 1) = election.n_voters

\* all passes of the race reconstruct to the same sorted list of choices
PassesAgree(e, race) ==
    \A k \in Range(e.k_list) :
        /\ PassChoices(e, race, k).exc = NoExc
        /\ PassChoices(e, race, k) = PassChoices(e, race, e.k_list[1])

\* compute_tally has been called
Tallied == op \in {"compute_tally", "post_tally"}

\* C5: after compute_tally, for every race all passes yield the same sorted
\* list of reconstructed choices and the tally counts each choice exactly as
\* many times as voters cast it (the counts of a race sum to n_voters); the
\* tally posted under "tally:results" is that tally.
C5_TallyCountsVotes ==
    Tallied =>
        /\ err = NoExc
        /\ \A r \in DOMAIN election.races :
             /\ PassesAgree(election, election.races[r])
             /\ election.races[r].race_id \in DOMAIN election.tally
             /\ TallyIsVotes(election.tally[election.races[r].race_id],
                             election.races[r])
        /\ op = "post_tally" =>
             /\ Last(election.sbb.board)[1] = "tally:results"
             /\ Last(election.sbb.board)[2].tally = election.tally

\* the same, for the elections with at least as many voters as the
\* threshold of the server array
C5_TallyCountsVotesOfEnoughVoters ==
    election.n_voters >= election.server.threshold => C5_TallyCountsVotes

\* C23: compute_tally reconstructs every position with the lagrange
\* parameters n = rows and t = threshold, so that it completes without an
\* assertion failure for every accepted configuration, whatever n_voters is
\* (in particular when n_voters < threshold).
C23_TallyCompletes ==
    op = "compute_tally" =>
        /\ err = NoExc
        /\ \A r \in DOMAIN election.races :
             \A k \in Range(election.k_list) :
                PassChoices([election EXCEPT !.n_voters = election.server.rows],
                            election.races[r], k)
                  = PassChoices(election, election.races[r], k)

\* what the code does instead: it hands n_voters to lagrange as n, and
\* compute_tally raises AssertionError exactly when n_voters < threshold or
\* n_voters > race_modulus - 1 for some race
TallyAssertsOnVoters ==
    op = "compute_tally" =>
        (err = "AssertionError") =
           (\/ election.n_voters < election.server.threshold
            \/ \E r \in DOMAIN election.races :
                  election.n_voters > election.races[r].race_modulus - 1)

(***************************************************************************)
(* SpecTallyPasses: compute_tally and post_tally on an election whose      *)
(* final column holds, in the last pass, the shares of votes that may      *)
(* differ from the votes of the other passes (a mix that went wrong in one *)
(* pass).  votes is the pair of the votes cast and the votes of the last   *)
(* pass; sbb is the board as it is when compute_tally is called.           *)
(***************************************************************************)
\* elections of two passes, of one or two voters, with at least as many
\* voters as the threshold
TallyPassesParameters ==
    {ep \in AcceptedParameters :
        /\ ep.n_reps = 2
        /\ ep.n_leak = 0
        /\ ep.n_fail \in {0, 1}
        /\ ep.n_voters \in {1, 2}
        /\ ep.n_voters > ep.n_fail}

\* the election e1 with the final column of pass k taken from e2
WithPassOf(e1, e2, k) ==
    LET server == e1.server
        sdb == [race_id \in DOMAIN server.sdb |->
                  [i \in DOMAIN server.sdb[race_id] |->
                     [server.sdb[race_id][i] EXCEPT
                        ![server.cols - 1] =
                           [@ EXCEPT ![k] = e2.server.sdb[race_id][i][server.cols - 1][k]]]]]
    IN  [e1 EXCEPT !.server = [server EXCEPT !.sdb = sdb]]

\* the votes vs, or vs with the vote of one position of one race replaced
OneVoteChanged(e, vs) ==
    {vs} \cup
    UNION {{[vs EXCEPT ![e.race_ids[r]][p] = choice] :
              p \in Range(e.p_list), choice \in VoterChoices(e.races[r])} :
           r \in DOMAIN e.race_ids}

TallyPassesInit ==
    /\ arg \in TallyPassesParameters
    /\ \E e \in {Election(arg, 0)} :
         \E vs \in VoteSets(e) :
           \E last \in OneVoteChanged(e, vs) :
             \E mixed \in {WithMixedVotes(WithCastVotes(e, vs, 1), vs, 1, 1)},
                other \in {WithMixedVotes(WithCastVotes(e, vs, 1), last, 1, 1)} :
                /\ votes = <<vs, last>>
                /\ election = NoTally(WithPassOf(mixed, other, e.k_list[Len(e.k_list)]))
                /\ sbb = e.sbb.board
    /\ op = ""
    /\ ret = Return(<<>>)
    /\ pc = "compute_tally"
    /\ err = NoExc
    /\ clock = <<0>>
    /\ randomness_sources = <<>>
    /\ sha = <<>>

SpecTallyPasses == TallyPassesInit /\ [][TallyNext]_vars

\* compute_tally finds two passes of race number r whose sorted lists of
\* reconstructed choices differ: the races before r are tallied, the passes
\* of r are reconstructed, and one differs from the first
FindsDifferentPasses(e, r) ==
    /\ \A q \in 1..(r - 1) : RaceTally(e, e.races[q]).exc = NoExc
    /\ \A k \in Range(e.k_list) : PassChoices(e, e.races[r], k).exc = NoExc
    /\ \E k \in Range(e.k_list) :
          PassChoices(e, e.races[r], k).val
            # PassChoices(e, e.races[r], e.k_list[1]).val

\* the headers of the entries on the board
BoardHeaders(board) == {board[x][1] : x \in DOMAIN board}

\* C27: if compute_tally finds two passes of a race whose sorted lists of
\* reconstructed choices differ, the run aborts there: it raises, no
\* "tally:results" entry and no later entry is appended, and the entries
\* already on the board are unchanged.
C27_AbortLeavesBoard ==
    (\E r \in DOMAIN election.races : FindsDifferentPasses(election, r)) =>
        /\ op = "compute_tally" => (err = "AssertionError" /\ pc = "raised")
        /\ op # "post_tally"
        /\ election.sbb.board = sbb
        /\ "tally:results" \notin BoardHeaders(election.sbb.board)

\* compute_tally has stopped at the second race, whose passes differ, with
\* the entries of the setup on the board
C27_Witness ==
    /\ Len(election.races) = 2
    /\ FindsDifferentPasses(election, 2)
    /\ op = "compute_tally"
    /\ pc = "raised"
    /\ election.sbb.board # <<>>

(***************************************************************************)
(* Serialisation and hashing of the board.  sv.dumps, sv.load and          *)
(* sv.secure_hash are not in sv.py; they are the canonical JSON            *)
(* serialisation and the tweaked SHA-256 of the specification: equal       *)
(* boards have equal serialisations, and the hash is a digest that only    *)
(* its own input produces.                                                 *)
(***************************************************************************)
dumps(x) == [json |-> x]
loads(str) == str.json
secure_hash(x, tweak) == [sha256 |-> x, tweak |-> tweak]
bytes2hex(x) == [hex |-> x]
hex2bytes(str) == str.hex

\* SBB.hash_sbb(public)
hash_sbb(self) == secure_hash(dumps(self.board), 2)

(***************************************************************************)
(* sv_prover.py: the challenges.                                           *)
(***************************************************************************)
RECURSIVE SortedInts(_)
\* sorted(S) for a set of integers
SortedInts(S) ==
    IF S = {} THEN <<>>
    ELSE LET least == CHOOSE x \in S : \A y \in S : x <= y
         IN  <<least>> \o SortedInts(S \ {least})

\* the two lists with element m - 1 of pi in both
CutAndChoose_overlapping(k_list_, pi, m) ==
    LET chosen(S) == [x \in 1..Cardinality(S) |-> k_list_[SortedInts(S)[x] + 1]]
    IN  [icl |-> chosen({pi[i] : i \in 0..(m - 1)}),
         opl |-> chosen({pi[i] : i \in (m - 1)..(2 * m - 1)})]

\* the two lists of passes that a permutation pi of range(2*m) picks:
\* k_list[i] for i in sorted(pi[:m]), and for i in sorted(pi[m:])
CutAndChoose(k_list_, pi, m) ==
    LET chosen(S) == [x \in 1..Cardinality(S) |-> k_list_[SortedInts(S)[x] + 1]]
    IN  [icl |-> chosen({pi[i] : i \in 0..(m - 1)}),
         opl |-> chosen({pi[i] : i \in m..(2 * m - 1)})]

\* the number of digests the challenges take: 2*m - 1 for the permutation
\* and one for every race and voter
ChallengeDraws(n_reps, n_races, n_voters) ==
    (IF n_reps \div 2 = 0 THEN 0 ELSE 2 * (n_reps \div 2) - 1) + n_races * n_voters

\* make_cut_and_choose_challenges: challenges['cut']
make_cut_and_choose_challenges(e, ds) ==
    LET m == e.n_reps \div 2
    IN  CutAndChoose(e.k_list, random_permutation(range(2 * m), ds), m)

\* the draw for voter number x (from 0) of race number r (from 1), in the
\* order of the sorted race ids
LeftRightDraw(ds, n_reps, n_voters, r, x) ==
    ds[ChallengeDraws(n_reps, 0, 0) + (r - 1) * n_voters + x + 1] % 2

\* make_left_right_challenges of the prover: for each race a list of
\* n_voters values "left" or "right"
ProverLeftRight(e, ds) ==
    LET ids == sorted(e.race_ids)
    IN  [race_id \in Range(e.race_ids) |->
           PyList([x \in 1..e.n_voters |->
                     IF LeftRightDraw(ds, e.n_reps, e.n_voters,
                                      IndexOf(ids, race_id), x - 1) # 0
                       THEN "left" ELSE "right"])]

\* make_verifier_challenges(election): the challenges it returns and the
\* entry it posts, ds being the digests the source "verifier_challenges"
\* gives once seeded with the hash of the board
make_verifier_challenges(e, ds) ==
    LET cut == make_cut_and_choose_challenges(e, ds)
        challenges ==
            PyDict([cut |-> PyDict([icl |-> PyList(cut.icl), opl |-> PyList(cut.opl)]),
                    leftright |-> PyDict(ProverLeftRight(e, ds))])
    IN  [challenges |-> challenges,
         sbb_hash |-> hash_sbb(e.sbb),
         sbb |-> post(e.sbb, PyStr("proof:verifier_challenges"),
                      PyDict([sbb_hash |-> bytes2hex(hash_sbb(e.sbb)),
                              challenges |-> challenges]), FALSE, 0).val]

(***************************************************************************)
(* sv_verifier.py: reading the challenges.  The transcript sbb is the list *)
(* of items [header, payload]; a payload is a function on its keys, and    *)
(* the values in it that the verifier inspects by type are typed values.   *)
(***************************************************************************)
\* isdict(d, keys)
isdict(d, keys) == d.type = "dict" /\ DOMAIN d.d = keys

\* check_headers: sbb_dict, the payload of every header
SbbDict(sbb_list) ==
    [header \in {sbb_list[x][1] : x \in DOMAIN sbb_list} |->
        sbb_list[CHOOSE x \in DOMAIN sbb_list :
               sbb_list[x][1] = header /\ \A y \in DOMAIN sbb_list : sbb_list[y][1] = header => y <= x][2]]

\* the items of sbb_list before the first item with header stop_before_header
Truncated(sbb_list, stop_before_header) ==
    SubSeq(sbb_list, 1, Cardinality({x \in DOMAIN sbb_list :
                      \A y \in 1..x : sbb_list[y][1] # stop_before_header}))

\* hash_sbb of the verifier over the setup entries only
verifier_hash_sbb_of_setup(sbb_list, stop_before_header) ==
    secure_hash(dumps(Truncated(sbb_list, "casting:votes")), 2)

\* hash_sbb(sbb_list, stop_before_header) of the verifier
verifier_hash_sbb(sbb_list, stop_before_header) ==
    secure_hash(dumps(Truncated(sbb_list, stop_before_header)), 2)

\* read_verifier_challenges up to db['leftright'] = leftright: the checks
\* of the shape of the posted challenges; the exception of the first check
\* that fails, "" if none does
ChallengesShape(chs, db) ==
    IF ~isdict(chs, {"cut", "leftright"}) THEN "AssertionError"
    ELSE IF ~isdict(chs.d.cut, {"icl", "opl"}) THEN "AssertionError"
    ELSE LET icl == chs.d.cut.d.icl
             opl == chs.d.cut.d.opl
             leftright == chs.d.leftright
             ids == sorted(SetToList(DOMAIN leftright.d))
             keys(race_id) ==
                 IF leftright.d[race_id].type # "dict" THEN "AttributeError"
                 ELSE IF DOMAIN leftright.d[race_id].d # Range(db.p_list)
                        THEN "AssertionError"
                 ELSE IF \E p \in Range(db.p_list) :
                            leftright.d[race_id].d[p] \notin {"left", "right"}
                        THEN "AssertionError"
                 ELSE NoExc
         IN  IF icl.type # "list" THEN "AssertionError"
             ELSE IF Len(icl.l) # db.n_reps \div 2 THEN "AssertionError"
             ELSE IF ~(Range(icl.l) \subseteq Range(db.k_list)) THEN "AssertionError"
             ELSE IF opl.type # "list" THEN "AssertionError"
             ELSE IF Len(opl.l) # db.n_reps \div 2 THEN "AssertionError"
             ELSE IF ~(Range(opl.l) \subseteq Range(db.k_list)) THEN "AssertionError"
             ELSE IF Range(icl.l) \cap Range(opl.l) # {} THEN "AssertionError"
             ELSE IF ~isdict(leftright, db.race_ids) THEN "AssertionError"
             ELSE FirstExc([x \in DOMAIN ids |-> [exc |-> keys(ids[x])]])

\* make_left_right_challenges of the verifier: for each race a dict from
\* the positions p to "left" or "right"
VerifierLeftRight(db, ds) ==
    LET ids == sorted(SetToList(db.race_ids))
    IN  PyDict([race_id \in db.race_ids |->
           PyDict([p \in Range(db.p_list) |->
                     IF LeftRightDraw(ds, db.n_reps, db.n_voters,
                                      IndexOf(ids, race_id), IndexOf(db.p_list, p) - 1) # 0
                       THEN "left" ELSE "right"])])

\* read_verifier_challenges from the comparison of the hashes on, ds being
\* the digests of the source seeded with the posted hash
ChallengesDerived(sbb_dict, sbb_list, db, ds) ==
    LET entry == sbb_dict["proof:verifier_challenges"]
        chs == entry.challenges
        m == db.n_reps \div 2
        cut == CutAndChoose(db.k_list, random_permutation(range(db.n_reps), ds), m)
    IN  IF bytes2hex(verifier_hash_sbb(sbb_list, "proof:verifier_challenges")) # entry.sbb_hash
          THEN Raise("AssertionError")
        ELSE IF cut.icl # chs.d.cut.d.icl.l THEN Raise("AssertionError")
        ELSE IF cut.opl # chs.d.cut.d.opl.l THEN Raise("AssertionError")
        ELSE IF VerifierLeftRight(db, ds) # chs.d.leftright THEN Raise("AssertionError")
        ELSE Return([key \in DOMAIN db \cup {"icl", "opl", "leftright"} |->
                       IF key = "icl" THEN chs.d.cut.d.icl
                       ELSE IF key = "opl" THEN chs.d.cut.d.opl
                       ELSE IF key = "leftright" THEN chs.d.leftright
                       ELSE db[key]])

(***************************************************************************)
(* SpecChallenges: make_verifier_challenges on the board of an election,   *)
(* then read_verifier_challenges on the transcript of that board.          *)
(***************************************************************************)
\* the object e with attribute name set to value
SetAttr(e, name, value) ==
    [key \in DOMAIN e \cup {name} |-> IF key = name THEN value ELSE e[key]]

\* db as read_races, read_n_voters and
\* read_rows_cols_n_reps_threshold_indent fill it from the setup entries
\* of the election
DbOf(e) ==
    [races |-> [race_id \in Range(e.race_ids) |->
                  [choices |-> RaceOf(e, race_id).choices,
                   race_modulus |-> RaceOf(e, race_id).race_modulus]],
     race_ids |-> Range(e.race_ids),
     n_voters |-> e.n_voters,
     p_list |-> p_list(e.n_voters),
     rows |-> e.server.rows,
     row_list |-> row_list(e.server.rows),
     cols |-> e.server.cols,
     n_reps |-> e.n_reps,
     threshold |-> e.server.threshold,
     k_list |-> k_list(e.n_reps),
     json_indent |-> e.json_indent]

ChallengesInit ==
    /\ arg \in AcceptedParameters
    /\ election = SetAttr(Election(arg, 0), "sbb_hash", PyNone)
    /\ votes = <<>>
    /\ op = ""
    /\ ret = Return(<<>>)
    /\ pc = "make_verifier_challenges"
    /\ err = NoExc
    /\ sbb = <<>>
    /\ clock = <<0>>
    /\ randomness_sources = <<>>
    /\ sha = <<>>

\* challenges = make_verifier_challenges(election)
ProverMakeChallenges ==
    /\ pc = "make_verifier_challenges"
    /\ \E ds \in [1..ChallengeDraws(election.n_reps, Len(election.race_ids),
                                    election.n_voters) -> Digest] :
         /\ SeededDrawsAgree(hash_sbb(election.sbb), Len(ds), ds)
         /\ AfterSeededDraws("verifier_challenges", hash_sbb(election.sbb), Len(ds), ds)
         /\ \E r \in {make_verifier_challenges(election, ds)} :
              /\ election' = [election EXCEPT !.sbb_hash = r.sbb_hash, !.sbb = r.sbb]
              /\ ret' = Return(r.challenges)
    /\ pc' = "read_verifier_challenges"
    /\ op' = "make_verifier_challenges"
    /\ UNCHANGED <<arg, err, votes, sbbVars>>

\* read_verifier_challenges(sbb_dict, sbb, db) on the transcript loaded
\* from the file that the board was written to
VerifierReadChallenges ==
    /\ pc = "read_verifier_challenges"
    /\ \E sbb_list \in {loads(dumps(election.sbb.board))}, db \in {DbOf(election)} :
         \E sbb_dict \in {SbbDict(sbb_list)} :
           LET entry == sbb_dict["proof:verifier_challenges"]
               shape == ChallengesShape(entry.challenges, db)
               seed == hex2bytes(entry.sbb_hash)
           IN  IF shape # NoExc
                 THEN /\ err' = shape
                      /\ pc' = "raised"
                      /\ UNCHANGED <<ret, svVars>>
               ELSE IF bytes2hex(verifier_hash_sbb(sbb_list, "proof:verifier_challenges"))
                         # entry.sbb_hash
                 THEN /\ err' = "AssertionError"
                      /\ pc' = "raised"
                      /\ UNCHANGED <<ret, svVars>>
               ELSE \E ds \in [1..ChallengeDraws(db.n_reps, Cardinality(db.race_ids),
                                                 db.n_voters) -> Digest] :
                      /\ SeededDrawsAgree(seed, Len(ds), ds)
                      /\ AfterSeededDraws("verifier_challenges", seed, Len(ds), ds)
                      /\ \E r \in {ChallengesDerived(sbb_dict, sbb_list, db, ds)} :
                           /\ err' = r.exc
                           /\ pc' = IF r.exc = NoExc THEN "challenges read" ELSE "raised"
                           /\ ret' = r
    /\ op' = "read_verifier_challenges"
    /\ UNCHANGED <<arg, election, votes, sbbVars>>

ChallengesNext == ProverMakeChallenges \/ VerifierReadChallenges

SpecChallenges == ChallengesInit /\ [][ChallengesNext]_vars

(***************************************************************************)
(* Claims about the challenges, checked under SpecChallenges.              *)
(***************************************************************************)
\* the entry "proof:verifier_challenges" on the board of the election
PostedChallenges == SbbDict(election.sbb.board)["proof:verifier_challenges"]

\* C6: the hash the prover computes over the board at challenge time equals
\* the hash the verifier computes over the transcript truncated before
\* "proof:verifier_challenges", and the verifier re-derives from it the icl,
\* opl and leftright that are posted: read_verifier_challenges ends without
\* an exception, with the posted challenges in db.
C6_FiatShamir ==
    op = "read_verifier_challenges" =>
        /\ election.sbb_hash =
             verifier_hash_sbb(election.sbb.board, "proof:verifier_challenges")
        /\ err = NoExc
        /\ ret.val.icl = PostedChallenges.challenges.d.cut.d.icl
        /\ ret.val.opl = PostedChallenges.challenges.d.cut.d.opl
        /\ ret.val.leftright = PostedChallenges.challenges.d.leftright

\* the part of C6 about the hashes alone
C6_HashesAgree ==
    op = "read_verifier_challenges" =>
        election.sbb_hash =
            verifier_hash_sbb(election.sbb.board, "proof:verifier_challenges")

(***************************************************************************)
(* SpecCut: make_verifier_challenges on the board of an election of one    *)
(* race, for every number of passes.                                       *)
(***************************************************************************)
CutInit ==
    /\ arg \in {ep \in AcceptedParameters :
                  /\ Len(ep.ballot_style) = 1
                  /\ ep.n_fail = 0
                  /\ ep.n_leak = 0}
    /\ election = SetAttr(Election(arg, 0), "sbb_hash", PyNone)
    /\ votes = <<>>
    /\ op = ""
    /\ ret = Return(<<>>)
    /\ pc = "make_verifier_challenges"
    /\ err = NoExc
    /\ sbb = <<>>
    /\ clock = <<0>>
    /\ randomness_sources = <<>>
    /\ sha = <<>>

CutNext == ProverMakeChallenges

SpecCut == CutInit /\ [][CutNext]_vars

\* the passes that prove_outcome_correct opens in full: "for k in opl"
OpenedPasses(challenges) == Range(challenges.d.cut.d.opl.l)

\* the passes that compute_and_post_pik_list gives a pik for: "for k in icl"
PikPasses(challenges) == Range(challenges.d.cut.d.icl.l)

\* the list of passes is in increasing order
SortedPasses(ks) ==
    \A x, y \in DOMAIN ks : x < y => IndexOf(UpperCase, ks[x]) < IndexOf(UpperCase, ks[y])

\* C20: the cut partitions the passes: icl and opl are each sorted, each
\* has m = n_reps/2 elements, they are disjoint and their union is k_list;
\* so no pass is both opened in full for the outcome check and given a pik.
C20_CutPartition ==
    pc # "make_verifier_challenges" =>
      LET challenges == PostedChallenges.challenges
          icl == challenges.d.cut.d.icl.l
          opl == challenges.d.cut.d.opl.l
          m == election.n_reps \div 2
      IN  /\ 2 * m = election.n_reps
          /\ SortedPasses(icl) /\ SortedPasses(opl)
          /\ Len(icl) = m /\ Len(opl) = m
          /\ Range(icl) \cap Range(opl) = {}
          /\ Range(icl) \cup Range(opl) = Range(election.k_list)
          /\ OpenedPasses(challenges) \cap PikPasses(challenges) = {}

\* a cut of four passes that is not the first two against the last two
C20_Witness ==
    /\ op = "make_verifier_challenges"
    /\ election.n_reps = 4
    /\ PostedChallenges.challenges.d.cut.d.icl.l = <<"B", "D">>
    /\ PostedChallenges.challenges.d.cut.d.opl.l = <<"A", "C">>

(***************************************************************************)
(* sv.py: commitments.  A base64 string of 44 digits for 32 bytes is the   *)
(* record of the bytes it decodes to, of the two bits of its 43rd digit    *)
(* that belong to no byte (b64encode leaves them 0, b64decode ignores      *)
(* them) and of its length.  HMAC-SHA256 is a digest that only its own key *)
(* and message produce.                                                    *)
(***************************************************************************)
\* bytes2base64(x)
bytes2base64(x) == [bytes |-> x, spare |-> 0, len |-> 44]

\* base64_2_bytes(x)
base64_2_bytes(x) == x.bytes

\* SECPARAM_SYMMETRIC, SECPARAM_RAND_SEED (bits)
SECPARAM_SYMMETRIC == 256
SECPARAM_RAND_SEED == 256

\* len(s) for a base64 string, or for the hexadecimal string of a value
\* from get_random_from_source
StrLen(s) == IF "len" \in DOMAIN s THEN s.len ELSE 2 * (SECPARAM_RAND_SEED \div 8)

\* com(v, r_b64) for an int v
com(v, r_b64) ==
    IF StrLen(r_b64) # (SECPARAM_SYMMETRIC \div 6) + 2 THEN Raise("AssertionError")
    ELSE Return(bytes2base64([hmac |-> base64_2_bytes(r_b64), msg |-> int2bytes(v)]))

(***************************************************************************)
(* An honest election, as the data of its proof: for every race, the       *)
(* shares x of every vote with their split (u, v) and randomness (ru, rv); *)
(* for every pass k the map pik from output to input positions and the     *)
(* fresh shares y of the same votes with their split and randomness.       *)
(***************************************************************************)
\* the 32 random bytes a source gives for the named purpose
RandomBytes(purpose) == [random |-> purpose]

\* the split of share x number n drawn for the named purpose
HonestPair(x, n, M) == get_sv_pair(x, n, M).val

\* the input position px that the mix of pass k moves to py
HonestPik(e, shift, k, py) ==
    e.p_list[((IndexOf(e.p_list, py) - 1 + shift * IndexOf(e.k_list, k)) % e.n_voters) + 1]

\* the cast vote record of (race, p, row i), without its ballot id
HonestInput(e, vs, race_id, p, i) ==
    LET race == RaceOf(e, race_id)
        x == HonestShares(choice_str2int(race, vs[race_id][p]).val, e.server.rows,
                          e.server.threshold, 1, race.race_modulus)[RowNumber(i)]
        uv == HonestPair(x, RowNumber(i) + IndexOf(e.p_list, p), race.race_modulus)
        ru == bytes2base64(RandomBytes(<<"ru", race_id, p, i>>))
        rv == bytes2base64(RandomBytes(<<"rv", race_id, p, i>>))
    IN  [x |-> x, u |-> uv[1], v |-> uv[2], ru |-> ru, rv |-> rv,
         cu |-> com(uv[1], ru).val, cv |-> com(uv[2], rv).val]

\* the output record of (race, k, py, row i) at the final column
HonestOutput(e, vs, shift, race_id, k, py, i) ==
    LET race == RaceOf(e, race_id)
        px == HonestPik(e, shift, k, py)
        y == HonestShares(choice_str2int(race, vs[race_id][px]).val, e.server.rows,
                          e.server.threshold, 1 + IndexOf(e.k_list, k),
                          race.race_modulus)[RowNumber(i)]
        uv == HonestPair(y, 2 * RowNumber(i) + IndexOf(e.k_list, k), race.race_modulus)
        ru == bytes2base64(RandomBytes(<<"ru", race_id, k, py, i>>))
        rv == bytes2base64(RandomBytes(<<"rv", race_id, k, py, i>>))
    IN  [y |-> y, u |-> uv[1], v |-> uv[2], ru |-> ru, rv |-> rv,
         cu |-> com(uv[1], ru).val, cv |-> com(uv[2], rv).val]

\* the data of the proof of an honest election
HonestProof(e, vs, shift) ==
    [input |-> [race_id \in Range(e.race_ids) |-> [p \in Range(e.p_list) |->
                  [i \in Range(e.server.row_list) |-> HonestInput(e, vs, race_id, p, i)]]],
     pik |-> [race_id \in Range(e.race_ids) |-> [k \in Range(e.k_list) |->
                  [py \in Range(e.p_list) |-> HonestPik(e, shift, k, py)]]],
     output |-> [race_id \in Range(e.race_ids) |-> [k \in Range(e.k_list) |->
                  [py \in Range(e.p_list) |-> [i \in Range(e.server.row_list) |->
                      HonestOutput(e, vs, shift, race_id, k, py, i)]]]]]

\* the output position py that pass k moves input position px to
HonestPy(e, shift, k, px) ==
    CHOOSE py \in Range(e.p_list) : HonestPik(e, shift, k, py) = px

\* the tally of the votes vs, with an entry for every choice that is not
\* all stars
HonestTally(e, vs) ==
    [race_id \in Range(e.race_ids) |->
       LET race == RaceOf(e, race_id)
           cast == {vs[race_id][p] : p \in Range(e.p_list)}
           named == {c \in Range(race.choices) : ~AllStars(c)}
       IN  [choice \in named \cup cast |->
              Cardinality({p \in Range(e.p_list) : vs[race_id][p] = choice})]]

\* the half of an opened record that the challenge lr asks for
OpenedHalf(rec, lr) ==
    IF lr = "left" THEN [u |-> rec.u, ru |-> rec.ru] ELSE [v |-> rec.v, rv |-> rec.rv]

\* the payloads of an honest election up to the challenges, by header
HonestPosts(e, vs, shift) ==
    LET proof == HonestProof(e, vs, shift)
        races == Range(e.race_ids)
        ps == Range(e.p_list)
        ks == Range(e.k_list)
        is == Range(e.server.row_list)
        M(race_id) == RaceOf(e, race_id).race_modulus
    IN  [setup_races |->
           [ballot_style_race_dict |-> [race_id \in races |->
              [choices |-> RaceOf(e, race_id).choices, race_modulus |-> M(race_id)]]],
         casting_votes |->
           [cast_vote_dict |-> [race_id \in races |-> [p \in ps |-> [i \in is |->
              [ballot_id |-> <<"ballot", race_id, p>>,
               cu |-> proof.input[race_id][p][i].cu,
               cv |-> proof.input[race_id][p][i].cv]]]]],
         tally_results |->
           [election_id |-> e.election_id, tally |-> HonestTally(e, vs), time |-> 0],
         output_commitments |->
           [commitments |-> [race_id \in races |-> [k \in ks |-> [p \in ps |-> [i \in is |->
              [cu |-> proof.output[race_id][k][p][i].cu,
               cv |-> proof.output[race_id][k][p][i].cv]]]]]],
         t_values |->
           [t_values |-> [race_id \in races |-> [k \in ks |-> [px \in ps |-> [i \in is |->
              LET x == proof.input[race_id][px][i]
                  y == proof.output[race_id][k][HonestPy(e, shift, k, px)][i]
              IN  [tu |-> (y.u - x.u) % M(race_id),
                   tv |-> (y.v - x.v) % M(race_id)]]]]]]]

\* the items of an honest transcript before "proof:verifier_challenges"
HonestBoard(e, vs, shift) ==
    LET posts == HonestPosts(e, vs, shift)
    IN  <<<<"sbb:open", [election_id |-> e.election_id, time |-> 0]>>,
          <<"setup:start", [election_id |-> e.election_id, time |-> 0,
                            about |-> "about", legend |-> "legend"]>>,
          <<"setup:races", posts.setup_races>>,
          <<"setup:voters", [n_voters |-> e.n_voters, ballot_id_len |-> e.ballot_id_len]>>,
          <<"setup:server-array",
            [cols |-> e.server.cols, rows |-> e.server.rows, n_reps |-> e.n_reps,
             threshold |-> e.server.threshold, json_indent |-> e.json_indent]>>,
          <<"setup:finished", [time |-> 0]>>,
          <<"casting:votes", posts.casting_votes>>,
          <<"tally:results", posts.tally_results>>,
          <<"proof:output_commitments", posts.output_commitments>>,
          <<"proof:output_commitment_t_values", posts.t_values>>>>

\* the items of an honest transcript from "proof:verifier_challenges" on,
\* chs being the challenges with fields icl, opl and leftright
HonestAnswers(e, vs, shift, sbb_hash, chs) ==
    LET proof == HonestProof(e, vs, shift)
        races == Range(e.race_ids)
        ps == Range(e.p_list)
        is == Range(e.server.row_list)
        lr(race_id, px) == chs.leftright.d[race_id].d[px]
    IN  <<<<"proof:verifier_challenges",
            [sbb_hash |-> sbb_hash,
             challenges |-> PyDict([cut |-> PyDict([icl |-> chs.icl, opl |-> chs.opl]),
                                    leftright |-> chs.leftright])]>>,
          <<"proof:outcome_check",
            [opened_output_commitments |->
               [race_id \in races |-> [k \in Range(chs.opl.l) |-> [p \in ps |-> [i \in is |->
                  LET y == proof.output[race_id][k][p][i]
                  IN  [ru |-> y.ru, rv |-> y.rv, u |-> y.u, v |-> y.v, y |-> y.y]]]]]]>>,
          <<"proof:input_consistency:input_openings",
            [opened_commitments |->
               [race_id \in races |-> [p \in ps |-> [i \in is |->
                  OpenedHalf(proof.input[race_id][p][i], lr(race_id, p))]]]]>>,
          <<"proof:input_consistency:output_openings",
            [opened_commitments |->
               [race_id \in races |-> [k \in Range(chs.icl.l) |-> [py \in ps |-> [i \in is |->
                  OpenedHalf(proof.output[race_id][k][py][i],
                             lr(race_id, proof.pik[race_id][k][py]))]]]]]>>,
          <<"proof:input_consistency:pik_for_k_in_icl",
            [pik_dict |-> [race_id \in races |-> [k \in Range(chs.icl.l) |->
                             proof.pik[race_id][k]]]]>>,
          <<"election:done.", [time |-> 0, election_id |-> e.election_id]>>,
          <<"sbb:close", [time |-> 0]>>>>

(***************************************************************************)
(* sv_verifier.py: verify, up to the challenges.  A check is the name of   *)
(* the exception it raises, "" if it passes.  The payloads are functions   *)
(* on their keys.                                                          *)
(***************************************************************************)
\* ATTRIBUTES
ATTRIBUTES ==
    ("sbb:open" :> {"election_id", "time"}) @@
    ("setup:start" :> {"election_id", "time", "about", "legend"}) @@
    ("setup:races" :> {"ballot_style_race_dict"}) @@
    ("setup:voters" :> {"n_voters", "ballot_id_len"}) @@
    ("setup:server-array" :> {"cols", "rows", "n_reps", "threshold", "json_indent"}) @@
    ("setup:finished" :> {"time"}) @@
    ("casting:votes" :> {"cast_vote_dict"}) @@
    ("tally:results" :> {"election_id", "tally", "time"}) @@
    ("proof:output_commitments" :> {"commitments"}) @@
    ("proof:output_commitment_t_values" :> {"t_values"}) @@
    ("proof:verifier_challenges" :> {"challenges", "sbb_hash"}) @@
    ("proof:outcome_check" :> {"opened_output_commitments"}) @@
    ("proof:input_consistency:input_openings" :> {"opened_commitments"}) @@
    ("proof:input_consistency:output_openings" :> {"opened_commitments"}) @@
    ("proof:input_consistency:pik_for_k_in_icl" :> {"pik_dict"}) @@
    ("election:done." :> {"time", "election_id"}) @@
    ("sbb:close" :> {"time"})

\* has_keys(d, keys)
has_keys(d, keys) == DOMAIN d = keys

\* assert cond
Check(cond) == IF cond THEN NoExc ELSE "AssertionError"

\* the exception of the first of the checks that fails
FirstFailure(checks) == FirstExc([x \in DOMAIN checks |-> [exc |-> checks[x]]])

\* check_headers(sbb): the assertion on header_list
check_headers(sbb_list) == Check(Headers(sbb_list) = HEADER_LIST)

\* check_attributes(sbb_dict)
check_attributes(sbb_dict) ==
    Check(\A item_header \in DOMAIN sbb_dict :
             has_keys(sbb_dict[item_header], ATTRIBUTES[item_header]))

\* the values of attribute name in the items of sbb that have it, in order
AttributeValues(sbb_list, name) ==
    LET having == SortedInts({x \in DOMAIN sbb_list : name \in DOMAIN sbb_list[x][2]})
    IN  [x \in DOMAIN having |-> sbb_list[having[x]][2][name]]

\* check_monotonic_time(sbb)
check_monotonic_time(sbb_list) ==
    LET times == AttributeValues(sbb_list, "time")
    IN  Check(\A x \in 2..Len(times) : times[x] >= times[x - 1])

\* check_consistent_election_ids(sbb)
check_consistent_election_ids(sbb_list) ==
    LET ids == AttributeValues(sbb_list, "election_id")
    IN  Check(/\ \A x \in 2..Len(ids) : ids[x] = ids[x - 1]
              /\ ids # <<>>
              /\ ids[Len(ids)] # "")

\* read_races(sbb_dict, db)
read_races(sbb_dict) ==
    LET races == sbb_dict["setup:races"].ballot_style_race_dict
    IN  IF \E race_id \in DOMAIN races :
              ~has_keys(races[race_id], {"choices", "race_modulus"})
          THEN Raise("AssertionError")
        ELSE Return([races |-> races, race_ids |-> DOMAIN races])

\* read_n_voters(sbb_dict, db)
read_n_voters(sbb_dict) ==
    LET n_voters == sbb_dict["setup:voters"].n_voters
        ballot_id_len == sbb_dict["setup:voters"].ballot_id_len
    IN  IF ~(n_voters \in Int /\ n_voters > 0) THEN Raise("AssertionError")
        ELSE IF ~(ballot_id_len \in Int /\ ballot_id_len > 0) THEN Raise("AssertionError")
        ELSE Return([n_voters |-> n_voters, p_list |-> p_list(n_voters)])

\* read_rows_cols_n_reps_threshold_indent(sbb_dict, db)
read_rows_cols_n_reps_threshold_indent(sbb_dict) ==
    LET sbbd == sbb_dict["setup:server-array"]
        positive(x) == x \in Int /\ x > 0
    IN  IF ~(positive(sbbd.rows) /\ positive(sbbd.cols) /\ positive(sbbd.n_reps)
             /\ positive(sbbd.threshold))
          THEN Raise("AssertionError")
        ELSE IF ~(sbbd.rows < 27 /\ sbbd.n_reps < 27) THEN Raise("AssertionError")
        ELSE IF ~(sbbd.json_indent \in Int \/ sbbd.json_indent = PyNone)
          THEN Raise("AssertionError")
        ELSE IF sbbd.json_indent \in Int /\ sbbd.json_indent < 0
          THEN Raise("AssertionError")
        ELSE Return([rows |-> sbbd.rows, row_list |-> row_list(sbbd.rows),
                     cols |-> sbbd.cols, n_reps |-> sbbd.n_reps,
                     threshold |-> sbbd.threshold, k_list |-> k_list(sbbd.n_reps),
                     json_indent |-> sbbd.json_indent])

\* read_cast_votes(sbb_dict, db); the values are of the types that the
\* prover posts
read_cast_votes(sbb_dict, db) ==
    LET cast_vote_dict == sbb_dict["casting:votes"].cast_vote_dict
        rows == Range(db.row_list)
        ballot_id(race_id, p) == cast_vote_dict[race_id][p][db.row_list[1]].ballot_id
        ballots == {<<race_id, p>> : race_id \in DOMAIN db.races, p \in Range(db.p_list)}
    IN  IF ~has_keys(db.races, DOMAIN cast_vote_dict) THEN "AssertionError"
        ELSE IF \E race_id \in DOMAIN db.races :
                   Cardinality(DOMAIN cast_vote_dict[race_id]) # db.n_voters
          THEN "AssertionError"
        ELSE IF \E race_id \in DOMAIN db.races : \E p \in DOMAIN cast_vote_dict[race_id] :
                   ~has_keys(cast_vote_dict[race_id][p], rows)
          THEN "AssertionError"
        ELSE IF \E race_id \in DOMAIN db.races : \E p \in DOMAIN cast_vote_dict[race_id] :
                   \E i \in rows :
                      \/ ~has_keys(cast_vote_dict[race_id][p][i], {"ballot_id", "cu", "cv"})
                      \/ cast_vote_dict[race_id][p][i].ballot_id
                           # cast_vote_dict[race_id][p][db.row_list[1]].ballot_id
          THEN "AssertionError"
        ELSE Check(Cardinality({ballot_id(b[1], b[2]) : b \in ballots})
                     = Cardinality(ballots))

\* read_tally(sbb_dict, db)
read_tally(sbb_dict, db) ==
    LET tally == sbb_dict["tally:results"].tally
    IN  IF ~has_keys(tally, DOMAIN db.races) THEN "AssertionError"
        ELSE Check(\A race_id \in DOMAIN tally :
                      /\ DOMAIN tally[race_id] # {}
                      /\ \A key \in DOMAIN tally[race_id] : tally[race_id][key] \in Int)

\* the nest of dicts d[race_id][k][p][i] of read_output_commitments and
\* read_t_values has the keys of db at each level and leaf_keys at the
\* last
NestHasKeys(d, db, leaf_keys) ==
    /\ has_keys(d, db.race_ids)
    /\ \A race_id \in db.race_ids :
         /\ has_keys(d[race_id], Range(db.k_list))
         /\ \A k \in Range(db.k_list) :
              /\ has_keys(d[race_id][k], Range(db.p_list))
              /\ \A p \in Range(db.p_list) :
                   /\ has_keys(d[race_id][k][p], Range(db.row_list))
                   /\ \A i \in Range(db.row_list) :
                        has_keys(d[race_id][k][p][i], leaf_keys)

\* read_output_commitments(sbb_dict, db)
read_output_commitments(sbb_dict, db) ==
    Check(NestHasKeys(sbb_dict["proof:output_commitments"].commitments, db, {"cu", "cv"}))

\* read_t_values(sbb_dict, db)
read_t_values(sbb_dict, db) ==
    LET ts == sbb_dict["proof:output_commitment_t_values"].t_values
        in_range(t, race_id) ==
            t \in Int /\ 0 <= t /\ t < db.races[race_id].race_modulus
    IN  IF ~NestHasKeys(ts, db, {"tu", "tv"}) THEN "AssertionError"
        ELSE Check(\A race_id \in db.race_ids : \A k \in Range(db.k_list) :
                     \A p \in Range(db.p_list) : \A i \in Range(db.row_list) :
                        /\ in_range(ts[race_id][k][p][i].tu, race_id)
                        /\ in_range(ts[race_id][k][p][i].tv, race_id))

\* the record with the fields of both a and b
Merge(a, b) == [key \in DOMAIN a \cup DOMAIN b |-> IF key \in DOMAIN a THEN a[key] ELSE b[key]]

\* verify(sbb_filename) from check_headers to read_t_values: the db it
\* has filled, or the exception of the first check that fails
VerifyToChallenges(sbb_list) ==
    LET sbb_dict == SbbDict(sbb_list)
        races == read_races(sbb_dict)
        voters == read_n_voters(sbb_dict)
        array == read_rows_cols_n_reps_threshold_indent(sbb_dict)
        db == Merge(races.val, Merge(voters.val, array.val))
    IN  IF check_headers(sbb_list) # NoExc THEN Raise(check_headers(sbb_list))
        ELSE IF check_attributes(sbb_dict) # NoExc THEN Raise(check_attributes(sbb_dict))
        ELSE IF check_monotonic_time(sbb_list) # NoExc
          THEN Raise(check_monotonic_time(sbb_list))
        ELSE IF check_consistent_election_ids(sbb_list) # NoExc
          THEN Raise(check_consistent_election_ids(sbb_list))
        ELSE IF races.exc # NoExc THEN races
        ELSE IF voters.exc # NoExc THEN voters
        ELSE IF array.exc # NoExc THEN array
        ELSE IF read_cast_votes(sbb_dict, db) # NoExc
          THEN Raise(read_cast_votes(sbb_dict, db))
        ELSE IF read_tally(sbb_dict, db) # NoExc THEN Raise(read_tally(sbb_dict, db))
        ELSE IF read_output_commitments(sbb_dict, db) # NoExc
          THEN Raise(read_output_commitments(sbb_dict, db))
        ELSE IF read_t_values(sbb_dict, db) # NoExc THEN Raise(read_t_values(sbb_dict, db))
        ELSE Return(Merge(db, [tally |-> sbb_dict["tally:results"].tally]))

(***************************************************************************)
(* sv_verifier.py: verify, after the challenges.  db has icl, opl (lists)  *)
(* and leftright (a dict of dicts) from read_verifier_challenges.          *)
(***************************************************************************)
\* check_opened_output_commitments(sbb_dict, db)
check_opened_output_commitments(sbb_dict, db) ==
    LET coms == sbb_dict["proof:outcome_check"].opened_output_commitments
        posted == sbb_dict["proof:output_commitments"].commitments
        opl == Range(db.opl.l)
        ps == Range(db.p_list)
        is == Range(db.row_list)
        in_range(x, race_id) == x \in Int /\ 0 <= x /\ x < db.races[race_id].race_modulus
        opens(c, v, r) == com(v, r).exc = NoExc /\ c = com(v, r).val
        leaf(race_id, k, p, i) ==
            LET o == coms[race_id][k][p][i]
            IN  IF ~has_keys(o, {"ru", "rv", "u", "v", "y"}) THEN "AssertionError"
                ELSE IF ~(in_range(o.u, race_id) /\ in_range(o.v, race_id)
                          /\ in_range(o.y, race_id))
                  THEN "AssertionError"
                ELSE IF o.y # (o.u + o.v) % db.races[race_id].race_modulus
                  THEN "AssertionError"
                ELSE Check(/\ opens(posted[race_id][k][p][i].cu, o.u, o.ru)
                           /\ opens(posted[race_id][k][p][i].cv, o.v, o.rv))
    IN  IF ~has_keys(coms, db.race_ids) THEN "AssertionError"
        ELSE IF \E race_id \in db.race_ids : ~has_keys(coms[race_id], opl)
          THEN "AssertionError"
        ELSE IF \E race_id \in db.race_ids : \E k \in opl : ~has_keys(coms[race_id][k], ps)
          THEN "AssertionError"
        ELSE IF \E race_id \in db.race_ids : \E k \in opl : \E p \in ps :
                   ~has_keys(coms[race_id][k][p], is)
          THEN "AssertionError"
        ELSE Check(\A race_id \in db.race_ids : \A k \in opl : \A p \in ps : \A i \in is :
                      leaf(race_id, k, p, i) = NoExc)

\* the choice that the opened y of (race_id, k, p) reconstruct
OpenedChoice(sbb_dict, db, race_id, k, p) ==
    LET opened_coms == sbb_dict["proof:outcome_check"].opened_output_commitments
        share_list == [i_int \in 1..Len(db.row_list) |->
                         <<i_int, opened_coms[race_id][k][p][db.row_list[i_int]].y>>]
        w == lagrange(share_list, db.rows, db.threshold, db.races[race_id].race_modulus)
    IN  IF w.exc # NoExc THEN w ELSE decode(int2bytes(w.val))

\* check_opened_output_commitment_tallies, the body of "for k": tally_k,
\* from the choices that the positions of pass k reconstruct
tally_k(sbb_dict, db, k) ==
    LET choices(race_id) ==
            sbb_dict["setup:races"].ballot_style_race_dict[race_id].choices
    IN  [race_id \in db.race_ids |->
           LET named == {c \in Range(choices(race_id)) : SubSeq(c, 1, 1) # "*"}
               opened == [p \in Range(db.p_list) |->
                            OpenedChoice(sbb_dict, db, race_id, k, p).val]
           IN  [choice \in named \cup Range(opened) |->
                  Cardinality({p \in Range(db.p_list) : opened[p] = choice})]]

\* check_opened_output_commitment_tallies(sbb_dict, db)
check_opened_output_commitment_tallies(sbb_dict, db) ==
    LET opened == [k \in Range(db.opl.l) |-> [race_id \in db.race_ids |->
                     [p \in Range(db.p_list) |-> OpenedChoice(sbb_dict, db, race_id, k, p)]]]
        raised == {r \in UNION {UNION {Range(opened[k][race_id]) : race_id \in db.race_ids} :
                                  k \in Range(db.opl.l)} : r.exc # NoExc}
    IN  IF raised # {} THEN (CHOOSE r \in raised : TRUE).exc
        ELSE Check(\A k \in Range(db.opl.l) : tally_k(sbb_dict, db, k) = db.tally)

\* check_input_consistency_pik(sbb_dict, db)
check_input_consistency_pik(sbb_dict, db) ==
    LET pd == sbb_dict["proof:input_consistency:pik_for_k_in_icl"].pik_dict
        icl == Range(db.icl.l)
        ps == Range(db.p_list)
    IN  IF ~has_keys(pd, db.race_ids) THEN "AssertionError"
        ELSE IF \E race_id \in db.race_ids : ~has_keys(pd[race_id], icl)
          THEN "AssertionError"
        ELSE IF \E race_id \in db.race_ids : \E k \in icl : ~has_keys(pd[race_id][k], ps)
          THEN "AssertionError"
        ELSE Check(\A race_id \in db.race_ids : \A k \in icl :
                      /\ \A p \in ps : pd[race_id][k][p] \in ps
                      /\ \A p, q \in ps : p # q => pd[race_id][k][p] # pd[race_id][k][q])

\* check_input_consistency_t_values(sbb_dict, db): the checks on
\* (race_id, k, py)
TValuesOf(sbb_dict, db, race_id, k, py) ==
    LET leftright == sbb_dict["proof:verifier_challenges"].challenges.d.leftright.d[race_id].d
        race_modulus == sbb_dict["setup:races"].ballot_style_race_dict[race_id].race_modulus
        px == sbb_dict["proof:input_consistency:pik_for_k_in_icl"].pik_dict[race_id][k][py]
        icom == sbb_dict["proof:input_consistency:input_openings"].opened_commitments[race_id]
        ocom == sbb_dict["proof:input_consistency:output_openings"]
                    .opened_commitments[race_id][k]
        t_value_dict(i) ==
            sbb_dict["proof:output_commitment_t_values"].t_values[race_id][k][px][i]
        lr == leftright[px]
        row(i) ==
            IF DOMAIN icom[px][i] # DOMAIN ocom[py][i] THEN "AssertionError"
            ELSE IF lr \notin {"left", "right"} THEN "AssertionError"
            ELSE IF (IF lr = "left" THEN "u" ELSE "v") \notin DOMAIN icom[px][i]
              THEN "KeyError"
            ELSE IF lr = "left"
              THEN Check(t_value_dict(i).tu = (ocom[py][i].u - icom[px][i].u) % race_modulus)
            ELSE Check(t_value_dict(i).tv = (ocom[py][i].v - icom[px][i].v) % race_modulus)
        rows == [i_int \in 1..Len(db.row_list) |-> [exc |-> row(db.row_list[i_int])]]
        tu_list == [i_int \in 1..Len(db.row_list) |->
                      <<i_int, t_value_dict(db.row_list[i_int]).tu>>]
        tv_list == [i_int \in 1..Len(db.row_list) |->
                      <<i_int, t_value_dict(db.row_list[i_int]).tv>>]
        tu0 == lagrange(tu_list, db.rows, db.threshold, race_modulus)
        tv0 == lagrange(tv_list, db.rows, db.threshold, race_modulus)
    IN  IF FirstExc(rows) # NoExc THEN FirstExc(rows)
        ELSE IF tu0.exc # NoExc THEN tu0.exc
        ELSE IF tv0.exc # NoExc THEN tv0.exc
        ELSE Check((tu0.val + tv0.val) % race_modulus = 0)

\* check_input_consistency_t_values(sbb_dict, db)
check_input_consistency_t_values(sbb_dict, db) ==
    LET cases == SetToList({<<race_id, k, py>> : race_id \in DOMAIN db.races,
                              k \in Range(db.icl.l), py \in Range(db.p_list)})
        failed == {x \in DOMAIN cases :
                     TValuesOf(sbb_dict, db, cases[x][1], cases[x][2], cases[x][3]) # NoExc}
    IN  IF failed = {} THEN NoExc
        ELSE LET x == CHOOSE x \in failed : TRUE
             IN  TValuesOf(sbb_dict, db, cases[x][1], cases[x][2], cases[x][3])

\* the opened half o opens the commitment of its side in the pair c
HalfOpens(o, c) ==
    IF "u" \in DOMAIN o
      THEN IF "ru" \notin DOMAIN o THEN "KeyError"
           ELSE IF com(o.u, o.ru).exc # NoExc THEN com(o.u, o.ru).exc
           ELSE Check(c.cu = com(o.u, o.ru).val)
    ELSE IF ~({"v", "rv"} \subseteq DOMAIN o) THEN "KeyError"
    ELSE IF com(o.v, o.rv).exc # NoExc THEN com(o.v, o.rv).exc
    ELSE Check(c.cv = com(o.v, o.rv).val)

\* check_input_consistency_input_openings(sbb_dict, db)
check_input_consistency_input_openings(sbb_dict, db) ==
    LET oc == sbb_dict["proof:input_consistency:input_openings"].opened_commitments
        cv == sbb_dict["casting:votes"].cast_vote_dict
    IN  Check(\A race_id \in DOMAIN db.races : \A p \in Range(db.p_list) :
                 \A i \in Range(db.row_list) :
                    HalfOpens(oc[race_id][p][i], cv[race_id][p][i]) = NoExc)

\* check_input_consistency_output_openings(sbb_dict, db)
check_input_consistency_output_openings(sbb_dict, db) ==
    LET oooc == sbb_dict["proof:input_consistency:output_openings"].opened_commitments
        occ == sbb_dict["proof:output_commitments"].commitments
    IN  Check(\A race_id \in DOMAIN db.races : \A k \in Range(db.icl.l) :
                 \A p \in Range(db.p_list) : \A i \in Range(db.row_list) :
                    HalfOpens(oooc[race_id][k][p][i], occ[race_id][k][p][i]) = NoExc)

\* check_input_consistency(sbb_dict, db)
check_input_consistency(sbb_dict, db) ==
    IF check_input_consistency_pik(sbb_dict, db) # NoExc
      THEN check_input_consistency_pik(sbb_dict, db)
    ELSE IF check_input_consistency_t_values(sbb_dict, db) # NoExc
      THEN check_input_consistency_t_values(sbb_dict, db)
    ELSE IF check_input_consistency_input_openings(sbb_dict, db) # NoExc
      THEN check_input_consistency_input_openings(sbb_dict, db)
    ELSE check_input_consistency_output_openings(sbb_dict, db)

\* verify(sbb_filename) after read_verifier_challenges
VerifyFromChallenges(sbb_dict, db) ==
    IF check_opened_output_commitments(sbb_dict, db) # NoExc
      THEN check_opened_output_commitments(sbb_dict, db)
    ELSE IF check_opened_output_commitment_tallies(sbb_dict, db) # NoExc
      THEN check_opened_output_commitment_tallies(sbb_dict, db)
    ELSE check_input_consistency(sbb_dict, db)

(***************************************************************************)
(* SpecVerifier: verify on the transcript of an honest election, as posted *)
(* or with one posted value changed.  sbb is the list that sv.load gives;  *)
(* election and votes are the election behind the transcript; arg is the   *)
(* change made (the path to the value, what it was, what it is), <<>> if   *)
(* none.                                                                   *)
(***************************************************************************)
\* the elections behind the transcripts: one race, a cut of one pass each
VerifierParameters ==
    {ep \in AcceptedParameters :
        /\ ep.ballot_style = <<<<"taxes", <<"y", "n">>>>>>
        /\ ep.n_voters \in {1, 2}
        /\ ep.n_reps = 2
        /\ ep.n_fail \in {0, 1}
        /\ ep.n_leak = 0}

\* the challenges that the digests ds give
HonestChallenges(e, ds) ==
    LET db == DbOf(e)
        cut == CutAndChoose(db.k_list, random_permutation(range(db.n_reps), ds),
                            db.n_reps \div 2)
    IN  [icl |-> PyList(cut.icl), opl |-> PyList(cut.opl),
         leftright |-> VerifierLeftRight(db, ds)]

\* the transcript of the honest election of votes vs, mixed by shift, the
\* hash of its board giving the digests ds
HonestTranscript(e, vs, shift, ds) ==
    LET board == HonestBoard(e, vs, shift)
        sbb_hash == bytes2hex(verifier_hash_sbb(board, "proof:verifier_challenges"))
    IN  board \o HonestAnswers(e, vs, shift, sbb_hash, HonestChallenges(e, ds))

RECURSIVE Replaced(_, _, _)
\* d with the value at the path of keys replaced by value
Replaced(d, path, value) ==
    IF path = <<>> THEN value
    ELSE [key \in DOMAIN d |->
            IF key = Head(path) THEN Replaced(d[key], Tail(path), value) ELSE d[key]]

RECURSIVE ValueAt(_, _)
ValueAt(d, path) == IF path = <<>> THEN d ELSE ValueAt(d[Head(path)], Tail(path))

RECURSIVE Paths(_, _)
\* the paths of keys from d down depth levels
Paths(d, depth) ==
    IF depth = 0 THEN {<<>>}
    ELSE UNION {{<<key>> \o path : path \in Paths(d[key], depth - 1)} : key \in DOMAIN d}

\* the places of the posted commitments, t-values and opened values: the
\* number of the item, its attribute and the depth of the values under it
MutableItems ==
    {<<7, "cast_vote_dict", 4>>, <<9, "commitments", 5>>, <<10, "t_values", 5>>,
     <<12, "opened_output_commitments", 5>>, <<13, "opened_commitments", 4>>,
     <<14, "opened_commitments", 5>>}

\* the paths from the transcript to the values that may be changed
MutablePaths(sbb_list) ==
    {path \in UNION {{<<item[1], 2, item[2]>> \o rest :
                         rest \in Paths(sbb_list[item[1]][2][item[2]], item[3])} :
                     item \in MutableItems} :
        path[Len(path)] # "ballot_id"}

\* other values of the kind of value: for a number of a race of modulus M
\* another residue and a number out of range; for a base64 string other
\* bytes, another string for the same bytes, and a shorter string
OtherValues(value, name, M) ==
    IF name \in {"tu", "tv", "u", "v", "y"} THEN {(value + 1) % M, M}
    ELSE {[value EXCEPT !.bytes = RandomBytes(<<"other">>)],
          [value EXCEPT !.spare = 1],
          [value EXCEPT !.len = 43]}

\* the race modulus for the value at path
ModulusAt(e, path) == RaceOf(e, path[4]).race_modulus

VerifierInit ==
    /\ \E ep \in VerifierParameters :
         \E e \in {Election(ep, 0)} :
           \E vs \in VoteSets(e), shift \in 0..(e.n_voters - 1),
              ds \in [1..ChallengeDraws(e.n_reps, Len(e.race_ids), e.n_voters) -> 0..1] :
             \E board \in {HonestTranscript(e, vs, shift, ds)} :
               /\ election = e
               /\ votes = vs
               /\ sbb = board
               /\ sha = (hex2bytes(SbbDict(board)["proof:verifier_challenges"].sbb_hash)
                           :> ds)
    /\ ret = Return(<<>>)
    /\ arg = <<>>
    /\ op = ""
    /\ pc = "load"
    /\ err = NoExc
    /\ clock = <<0>>
    /\ randomness_sources = <<>>

\* one posted value of the transcript is changed
Mutate ==
    /\ pc = "load"
    /\ \E path \in MutablePaths(sbb) :
         \E value \in OtherValues(ValueAt(sbb, path), path[Len(path)],
                                   ModulusAt(election, path)) :
           /\ sbb' = Replaced(sbb, path, value)
           /\ arg' = [path |-> path, was |-> ValueAt(sbb, path), value |-> value]
    /\ pc' = "mutated"
    /\ op' = "mutate"
    /\ UNCHANGED <<election, votes, ret, err, clock, svVars>>

\* verify(sbb_filename)
Verify ==
    /\ pc \in {"load", "mutated"}
    /\ \E sbb_dict \in {SbbDict(sbb)}, r \in {VerifyToChallenges(sbb)} :
         LET entry == sbb_dict["proof:verifier_challenges"]
             seed == hex2bytes(entry.sbb_hash)
         IN  IF r.exc # NoExc
               THEN err' = r.exc /\ UNCHANGED svVars
             ELSE IF ChallengesShape(entry.challenges, r.val) # NoExc
               THEN err' = ChallengesShape(entry.challenges, r.val) /\ UNCHANGED svVars
             ELSE IF bytes2hex(verifier_hash_sbb(sbb, "proof:verifier_challenges"))
                       # entry.sbb_hash
               THEN err' = "AssertionError" /\ UNCHANGED svVars
             ELSE \E ds \in [1..ChallengeDraws(r.val.n_reps, Cardinality(r.val.race_ids),
                                               r.val.n_voters) -> Digest] :
                    /\ SeededDrawsAgree(seed, Len(ds), ds)
                    /\ AfterSeededDraws("verifier_challenges", seed, Len(ds), ds)
                    /\ \E db \in {ChallengesDerived(sbb_dict, sbb, r.val, ds)} :
                         err' = IF db.exc # NoExc THEN db.exc
                                ELSE VerifyFromChallenges(sbb_dict, db.val)
    /\ pc' = "verified"
    /\ op' = "verify"
    /\ UNCHANGED <<arg, election, votes, ret, sbb, clock>>

VerifierNext == Mutate \/ Verify

SpecVerifier == VerifierInit /\ [][VerifierNext]_vars

\* the transcript has been verified without a change
Accepted == pc = "verified" /\ arg = <<>> /\ err = NoExc

\* verify accepts the transcript of an honest election
HonestTranscriptAccepted == (pc = "verified" /\ arg = <<>>) => err = NoExc

\* the name of the value changed
Changed == IF arg = <<>> THEN "" ELSE arg.path[Len(arg.path)]

\* C3: when any single posted commitment (cu or cv of a cast vote or of an
\* output), any single posted t-value (tu or tv) or any single opened value
\* (y, u, v, ru, rv) of an honest transcript is changed, verify fails at
\* least one check.
C3_MutationRejected ==
    (pc = "verified" /\ arg # <<>>) => err # NoExc

\* the changes of a posted commitment, of a posted t-value and of an opened
\* number are all rejected
C3_NumbersAndCommitmentsRejected ==
    (pc = "verified" /\ Changed \in {"cu", "cv", "tu", "tv", "y", "u", "v"}) => err # NoExc

\* a change of the bytes or of the length of an opened ru or rv is rejected
C3_OtherRandomnessRejected ==
    (pc = "verified" /\ Changed \in {"ru", "rv"}
       /\ (arg.value.len # 44 \/ arg.value.bytes # arg.was.bytes))
      => err # NoExc

\* the function of verify in which the first assert fails on the
\* transcript, "" if none fails; oracle gives the digests of the source
\* seeded with the posted hash
VerifyAbortsAt(sbb_list, oracle) ==
    LET sbb_dict == SbbDict(sbb_list)
        r == VerifyToChallenges(sbb_list)
        db == Merge(read_races(sbb_dict).val,
                    Merge(read_n_voters(sbb_dict).val,
                          read_rows_cols_n_reps_threshold_indent(sbb_dict).val))
        entry == sbb_dict["proof:verifier_challenges"]
        derived == ChallengesDerived(sbb_dict, sbb_list, r.val,
                                     oracle[hex2bytes(entry.sbb_hash)])
    IN  IF check_headers(sbb_list) # NoExc THEN "check_headers"
        ELSE IF check_attributes(sbb_dict) # NoExc THEN "check_attributes"
        ELSE IF check_monotonic_time(sbb_list) # NoExc THEN "check_monotonic_time"
        ELSE IF check_consistent_election_ids(sbb_list) # NoExc
          THEN "check_consistent_election_ids"
        ELSE IF read_races(sbb_dict).exc # NoExc THEN "read_races"
        ELSE IF read_n_voters(sbb_dict).exc # NoExc THEN "read_n_voters"
        ELSE IF read_rows_cols_n_reps_threshold_indent(sbb_dict).exc # NoExc
          THEN "read_rows_cols_n_reps_threshold_indent"
        ELSE IF read_cast_votes(sbb_dict, db) # NoExc THEN "read_cast_votes"
        ELSE IF read_tally(sbb_dict, db) # NoExc THEN "read_tally"
        ELSE IF read_output_commitments(sbb_dict, db) # NoExc
          THEN "read_output_commitments"
        ELSE IF read_t_values(sbb_dict, db) # NoExc THEN "read_t_values"
        ELSE IF ChallengesShape(entry.challenges, r.val) # NoExc
          THEN "read_verifier_challenges"
        ELSE IF bytes2hex(verifier_hash_sbb(sbb_list, "proof:verifier_challenges"))
                  # entry.sbb_hash
          THEN "read_verifier_challenges: sbb_hash2 == sbb_hash"
        ELSE IF derived.exc # NoExc THEN "read_verifier_challenges"
        ELSE IF check_opened_output_commitments(sbb_dict, derived.val) # NoExc
          THEN "check_opened_output_commitments"
        ELSE IF check_opened_output_commitment_tallies(sbb_dict, derived.val) # NoExc
          THEN "check_opened_output_commitment_tallies"
        ELSE IF check_input_consistency_pik(sbb_dict, derived.val) # NoExc
          THEN "check_input_consistency_pik"
        ELSE IF check_input_consistency_t_values(sbb_dict, derived.val) # NoExc
          THEN "check_input_consistency_t_values"
        ELSE IF check_input_consistency_input_openings(sbb_dict, derived.val) # NoExc
          THEN "check_input_consistency_input_openings"
        ELSE IF check_input_consistency_output_openings(sbb_dict, derived.val) # NoExc
          THEN "check_input_consistency_output_openings"
        ELSE ""

\* a commitment of a cast vote has been changed and verify has run
CastVoteCommitmentChanged ==
    /\ pc = "verified"
    /\ arg # <<>>
    /\ sbb[arg.path[1]][1] = "casting:votes"
    /\ Changed \in {"cu", "cv"}

\* verify raises exactly when one of its functions has a failing assert
AbortsWhereItRaises ==
    pc = "verified" => (err = NoExc <=> VerifyAbortsAt(sbb, sha) = "")

KeySets == {Range(p_list(n)) : n \in 1..MaxKeys}

PermInit ==
    /\ \E keys \in KeySets :
         \E perm \in Permutations(keys), x \in [keys -> 0..(MaxKeys - 1)] :
           arg = [perm |-> perm, x |-> x]
    /\ op = ""
    /\ ret = Return(<<>>)
    /\ pc = ""
    /\ err = NoExc
    /\ sbb = <<>>
    /\ clock = <<>>
    /\ election = <<>>
    /\ votes = <<>>
    /\ randomness_sources = <<>>
    /\ sha = <<>>

\* y = apply_permutation(perm, x)
PermApply ==
    /\ op = ""
    /\ op' = "apply_permutation"
    /\ ret' = apply_permutation(arg.perm, arg.x)
    /\ err' = ret'.exc
    /\ UNCHANGED <<arg, pc, sbb, clock, election, votes, svVars>>

\* z = apply_permutation(inverse_permutation(perm), y)
PermApplyInverse ==
    /\ op = "apply_permutation"
    /\ ret.exc = NoExc
    /\ op' = "apply_permutation of the inverse"
    /\ ret' = apply_permutation(inverse_permutation(arg.perm), ret.val)
    /\ err' = ret'.exc
    /\ UNCHANGED <<arg, pc, sbb, clock, election, votes, svVars>>

PermNext == PermApply \/ PermApplyInverse

SpecPerm == PermInit /\ [][PermNext]_vars

\* C11: for a permutation perm of the keys of x, apply_permutation(perm, x)
\* has x[perm[k]] at every key k, and apply_permutation of the inverse of
\* perm on it gives x back.
C11_ApplyPermutation ==
    /\ op = "apply_permutation" =>
         /\ ret.exc = NoExc
         /\ DOMAIN ret.val = DOMAIN arg.x
         /\ \A k \in DOMAIN arg.x : ret.val[k] = arg.x[arg.perm[k]]
    /\ op = "apply_permutation of the inverse" =>
         /\ ret.exc = NoExc
         /\ ret.val = arg.x

\* a round trip through a permutation that moves a key, of a dict whose
\* values differ
C11_Witness ==
    /\ op = "apply_permutation of the inverse"
    /\ \E k \in DOMAIN arg.perm : arg.perm[k] # k /\ arg.x[arg.perm[k]] # arg.x[k]
    /\ Cardinality(DOMAIN arg.x) = MaxKeys
    /\ ret.val = arg.x

(***************************************************************************)
(* SpecVoter: Voter.cast_votes of one voter of an election just set up.    *)
(* The sources of the races and of the voters are freshly seeded; votes    *)
(* names the voter that has cast.                                          *)
(***************************************************************************)
\* race.random_choice(), ds being the digests that the source of the race
\* gives: the choice and the number of digests read
random_choice(race, ds) ==
    LET choice == race.choices[(ds[1] % Len(race.choices)) + 1]
    IN  IF ~AllStars(choice) THEN [val |-> choice, n |-> 1]
        ELSE [val |-> Prefix(WRITE_INS[(ds[2] % Len(WRITE_INS)) + 1], Len(choice)),
              n |-> 2]

\* the body of the loop "for i, x in enumerate(share_list)" of cast_votes up
\* to the vote appended, ds being the three digests read
CastVote(e, race, ballot_id, i, x, ds) ==
    LET uv == get_sv_pair(x, ds[1], race.race_modulus)
        ru == bytes2hex(RandomBytes(ds[2]))
        rv == bytes2hex(RandomBytes(ds[3]))
    IN  IF uv.exc # NoExc THEN uv
        ELSE IF com(uv.val[1], ru).exc # NoExc THEN com(uv.val[1], ru)
        ELSE IF com(uv.val[2], rv).exc # NoExc THEN com(uv.val[2], rv)
        ELSE IF e.cast_votes.type # "list" THEN Raise("AttributeError")
        ELSE Return([race_id |-> race.race_id, ballot_id |-> ballot_id, i |-> i, x |-> x,
                     u |-> uv.val[1], v |-> uv.val[2], ru |-> ru, rv |-> rv,
                     pair |-> <<com(uv.val[1], ru).val, com(uv.val[2], rv).val>>])

\* the body of the loop "for race in self.election.races" of cast_votes:
\* the exception raised, if any, and the votes appended before it; ds are
\* the digests of the
\* source of the voter (one for the ballot id, t for the shares, three for
\* each row), choice_str the choice drawn
CastVotesOfRace(e, race, choice_str, ds) ==
    LET choice_int == choice_str2int(race, choice_str)
        ballot_id == [hex |-> RandomBytes(ds[1]),
                      len |-> IF e.ballot_id_len < 2 * (SECPARAM_RAND_SEED \div 8)
                                THEN e.ballot_id_len ELSE 2 * (SECPARAM_RAND_SEED \div 8)]
        n == e.server.rows
        t == e.server.threshold
        share_list == share(choice_int.val, n, t, [j \in 1..t |-> ds[1 + j]],
                            race.race_modulus)
        back == lagrange(share_list.val, n, t, race.race_modulus)
        vote(i) == CastVote(e, race, ballot_id, i - 1, share_list.val[i][2],
                            [d \in 1..3 |-> ds[1 + t + 3 * (i - 1) + d]])
        appended == Cardinality({i \in 1..n : \A j \in 1..i : vote(j).exc = NoExc})
    IN  IF choice_int.exc # NoExc THEN choice_int
        ELSE IF ballot_id.len # e.ballot_id_len THEN Raise("AssertionError")
        ELSE IF share_list.exc # NoExc THEN share_list
        ELSE IF back.exc # NoExc THEN back
        ELSE IF back.val # choice_int.val THEN Raise("AssertionError")
        ELSE [exc |-> FirstExc([i \in 1..n |-> vote(i)]),
              val |-> [i \in 1..appended |-> vote(i).val]]

\* the list ds made n long with zeros
Pad(ds, n) == [x \in 1..n |-> IF x <= Len(ds) THEN ds[x] ELSE 0]

\* the number of digests that the loop body of cast_votes reads from the
\* source of the voter before it ends or raises; which statement raises
\* does not depend on the digests (the asserts of share are on n and t, the
\* assert of com on the length of r_b64)
VoterDraws(e, race, choice_str) ==
    LET n == e.server.rows
        t == e.server.threshold
        zeros == [x \in 1..(1 + t + 3 * n) |-> 0]
        choice_int == choice_str2int(race, choice_str)
        share_list == share(choice_int.val, n, t, [j \in 1..t |-> 0], race.race_modulus)
        failed == {i \in 1..n : CastVote(e, race, <<>>, i - 1, share_list.val[i][2],
                                         <<0, 0, 0>>).exc # NoExc}
    IN  IF choice_int.exc # NoExc THEN 0
        ELSE IF share_list.exc # NoExc THEN 1
        ELSE IF failed # {} THEN 1 + t + 3 * (CHOOSE i \in failed : \A j \in failed : i <= j)
        ELSE 1 + t + 3 * n

\* the digests that random_choice of the race can read
ChoiceDraws(race) ==
    UNION {IF ~AllStars(race.choices[(d % Len(race.choices)) + 1])
             THEN {<<d>>} ELSE {<<d, d2>> : d2 \in Digest} : d \in Digest}

RECURSIVE CastVotesRuns(_, _)
\* the runs of the loop of cast_votes from race number r on: the exception
\* raised, the votes appended, the digests read from the sources of the
\* races and those read from the source of the voter
CastVotesRuns(e, r) ==
    IF r > Len(e.races)
      THEN {[exc |-> NoExc, votes |-> <<>>, race_draws |-> <<>>, voter_draws |-> <<>>]}
    ELSE UNION {
           LET race == e.races[r]
               choice_str == random_choice(race, dr).val
               k == VoterDraws(e, race, choice_str)
           IN  UNION {
                 LET body == CastVotesOfRace(e, race, choice_str,
                                             Pad(dv, 1 + e.server.threshold
                                                       + 3 * e.server.rows))
                 IN  IF body.exc # NoExc
                       THEN {[exc |-> body.exc, votes |-> body.val,
                              race_draws |-> (race.rand_name :> dr), voter_draws |-> dv]}
                     ELSE {[exc |-> rest.exc,
                            votes |-> body.val \o rest.votes,
                            race_draws |-> (race.rand_name :> dr) @@ rest.race_draws,
                            voter_draws |-> dv \o rest.voter_draws] :
                              rest \in CastVotesRuns(e, r + 1)} :
                 dv \in [1..k -> Digest]} :
           dr \in ChoiceDraws(e.races[r])}

\* the accepted parameters of the elections of SpecVoter
VoterParameters ==
    {ep \in AcceptedParameters : ep.n_reps = 2 /\ ep.n_leak = 0}

\* the sources that Race.__init__ and Voter.__init__ have seeded
VoterSources(e) ==
    [rand_name \in {e.races[r].rand_name : r \in DOMAIN e.races}
                     \cup {"voter:" \o e.voter_ids[v] : v \in DOMAIN e.voter_ids} |->
        [seed |-> DefaultSeed(rand_name), n |-> 0]]

VoterInit ==
    /\ arg \in VoterParameters
    /\ election = Election(arg, 0)
    /\ randomness_sources = VoterSources(Election(arg, 0))
    /\ sha = [seed \in {st.seed : st \in Range(VoterSources(Election(arg, 0)))} |-> <<>>]
    /\ votes = <<>>
    /\ op = ""
    /\ ret = Return(<<>>)
    /\ pc = "cast_votes"
    /\ err = NoExc
    /\ sbb = <<>>
    /\ clock = <<>>

\* voter.cast_votes() for one of the voters of the election
VoterCastVotes ==
    /\ pc = "cast_votes"
    /\ \E v \in DOMAIN election.voter_ids, run \in CastVotesRuns(election, 1) :
         LET read == ("voter:" \o election.voter_ids[v] :> run.voter_draws) @@ run.race_draws
         IN  /\ randomness_sources' =
                   [rand_name \in DOMAIN randomness_sources |->
                      IF rand_name \in DOMAIN read
                        THEN [seed |-> randomness_sources[rand_name].seed,
                              n |-> randomness_sources[rand_name].n + Len(read[rand_name])]
                        ELSE randomness_sources[rand_name]]
             /\ sha' = [seed \in DOMAIN sha |->
                          IF \E rand_name \in DOMAIN read :
                                randomness_sources[rand_name].seed = seed
                            THEN sha[seed] \o read[CHOOSE rand_name \in DOMAIN read :
                                                randomness_sources[rand_name].seed = seed]
                            ELSE sha[seed]]
             /\ election' = IF run.votes = <<>> THEN election
                            ELSE [election EXCEPT !.cast_votes =
                                     PyList(election.cast_votes.l \o run.votes)]
             /\ ret' = IF run.exc = NoExc THEN Return(run.votes) ELSE Raise(run.exc)
             /\ err' = run.exc
             /\ votes' = [voter_id |-> election.voter_ids[v]]
    /\ pc' = IF err' = NoExc THEN "votes cast" ELSE "raised"
    /\ op' = "cast_votes"
    /\ UNCHANGED <<arg, sbb, clock>>

VoterNext == VoterCastVotes

SpecVoter == VoterInit /\ [][VoterNext]_vars

\* the cast vote records of (race_id, ballot_id) reconstruct choice_int
\* from the pairs (row index + 1, x)
SharesOf(records, race_id, ballot_id) ==
    LET mine == {r \in DOMAIN records : records[r].race_id = race_id
                                          /\ records[r].ballot_id = ballot_id}
    IN  [row \in 1..Cardinality(mine) |->
           <<row, records[CHOOSE r \in mine : records[r].i = row - 1].x>>]

\* C12: Voter.cast_votes produces a cast vote record for every race and
\* row, and every record has x = (u + v) mod M, cu = Com(u, ru) and
\* cv = Com(v, rv); the rows of a race carry one ballot_id and their pairs
\* (row index + 1, x) Lagrange-reconstruct to the choice of the voter, a
\* valid choice of the race.
C12_CastVoteRecords ==
    op = "cast_votes" =>
      /\ err = NoExc
      /\ Len(ret.val) = Len(election.races) * election.server.rows
      /\ \A r \in DOMAIN ret.val :
           LET vote == ret.val[r]
               race == RaceOf(election, vote.race_id)
           IN  /\ vote.x = (vote.u + vote.v) % race.race_modulus
               /\ vote.pair[1] = com(vote.u, vote.ru).val
               /\ vote.pair[2] = com(vote.v, vote.rv).val
               /\ \A q \in DOMAIN ret.val :
                    ret.val[q].race_id = vote.race_id
                      => ret.val[q].ballot_id = vote.ballot_id
               /\ LET back == lagrange(SharesOf(ret.val, vote.race_id, vote.ballot_id),
                                       election.server.rows, election.server.threshold,
                                       race.race_modulus)
                  IN  /\ back.exc = NoExc
                      /\ choice_int2str(race, back.val).exc = NoExc

\* cast_votes raises AssertionError and appends no record, whatever the
\* sources give: with one row in share (1 < n), otherwise in the first com
CastVotesRaises ==
    op = "cast_votes" =>
      /\ err = "AssertionError"
      /\ election.cast_votes = PyDict(<<>>)
      /\ randomness_sources["voter:" \o votes.voter_id].n =
           IF election.server.rows = 1 THEN 1 ELSE 1 + election.server.threshold + 3

(***************************************************************************)
(* SpecTValues: compute_and_post_t_values on a server array that holds an  *)
(* honest election: the cast votes with their splits in the first column,  *)
(* the outputs with their splits in the last, and in every cell the        *)
(* permutations that Server.mix stores.  The dicts of positions are keyed  *)
(* by the strings of p_list; a dict from random_permutation(n_voters, ...) *)
(* is keyed by the numbers 0..n_voters-1.                                  *)
(***************************************************************************)
\* a dict whose keys are ints
IntKeyed(d) == [type |-> "dict", keys |-> "int", d |-> d]

\* pd[key] for a str key
GetStr(pd, key) ==
    IF "keys" \in DOMAIN pd /\ pd.keys = "int" THEN Raise("KeyError")
    ELSE IF key \notin DOMAIN pd.d THEN Raise("KeyError")
    ELSE Return(pd.d[key])

\* the part of Server.mix that stores pi and pi_inv in the cells, ds being
\* the digests read for each permutation
MixPermutations(e, ds) ==
    LET pi == random_permutation(range(e.n_voters), ds)
    IN  [pi |-> IntKeyed(pi), pi_inv |-> IntKeyed(inverse_permutation(pi))]

\* the server array of an honest election after the mix and
\* make_full_output
WithFullOutput(e, vs, shift, ds) ==
    LET proof == HonestProof(e, vs, shift)
        server == e.server
        perms == MixPermutations(e, ds)
        input(race_id, i, name) ==
            PyDict([p \in Range(e.p_list) |-> proof.input[race_id][p][i][name]])
        output(race_id, i, k, name) ==
            PyDict([p \in Range(e.p_list) |-> proof.output[race_id][k][p][i][name]])
        pass(race_id, i, j, k) ==
            [key \in DOMAIN server.sdb[race_id][i][j][k] \cup {"pi", "pi_inv"} |->
               IF key \in {"pi", "pi_inv"} THEN perms[key]
               ELSE IF j = server.cols - 1 /\ key \in {"y", "u", "v", "ru", "rv"}
                 THEN output(race_id, i, k, key)
               ELSE IF j = server.cols - 1 /\ key = "pair"
                 THEN PyDict([p \in Range(e.p_list) |->
                                <<proof.output[race_id][k][p][i].cu,
                                  proof.output[race_id][k][p][i].cv>>])
               ELSE server.sdb[race_id][i][j][k][key]]
        cell(race_id, i, j) ==
            [key \in DOMAIN server.sdb[race_id][i][j] |->
               IF key \in Range(e.k_list) THEN pass(race_id, i, j, key)
               ELSE IF j = 0 /\ key \in {"x", "u", "v", "ru", "rv"}
                 THEN input(race_id, i, key)
               ELSE server.sdb[race_id][i][j][key]]
        sdb == [race_id \in DOMAIN server.sdb |-> [i \in DOMAIN server.sdb[race_id] |->
                  [j \in DOMAIN server.sdb[race_id][i] |-> cell(race_id, i, j)]]]
    IN  [e EXCEPT !.server = [server EXCEPT !.sdb = sdb]]

RECURSIVE TracedForward(_, _, _, _, _, _)
\* "for j in range(cols): py = pi_inv[py]" from column j on
TracedForward(e, race_id, i, k, j, py) ==
    IF j > e.server.cols - 1 THEN Return(py)
    ELSE LET next == GetStr(e.server.sdb[race_id][i][j][k].pi_inv, py)
         IN  IF next.exc # NoExc THEN next
             ELSE TracedForward(e, race_id, i, k, j + 1, next.val)

\* the body of the innermost loop of compute_and_post_t_values
TValue(e, race, k, i, px) ==
    LET sdb == e.server.sdb[race.race_id][i]
        cols == e.server.cols
        ux == GetStr(sdb[0].u, px)
        vx == GetStr(sdb[0].v, px)
        py == TracedForward(e, race.race_id, i, k, 0, px)
        uy == GetStr(sdb[cols - 1][k].u, py.val)
        vy == GetStr(sdb[cols - 1][k].v, py.val)
    IN  IF ux.exc # NoExc THEN ux
        ELSE IF vx.exc # NoExc THEN vx
        ELSE IF py.exc # NoExc THEN py
        ELSE IF uy.exc # NoExc THEN uy
        ELSE IF vy.exc # NoExc THEN vy
        ELSE Return([tu |-> (uy.val - ux.val) % race.race_modulus,
                     tv |-> (vy.val - vx.val) % race.race_modulus])

\* compute_and_post_t_values(election): the exception raised, or the
\* election after the post
compute_and_post_t_values(e, now) ==
    LET value(race_id, k, i, px) == TValue(e, RaceOf(e, race_id), k, i, px)
        raised == {c \in Range(e.race_ids) \X Range(e.k_list)
                           \X Range(e.server.row_list) \X Range(e.p_list) :
                      value(c[1], c[2], c[3], c[4]).exc # NoExc}
        t_values == [race_id \in Range(e.race_ids) |-> [k \in Range(e.k_list) |->
                       [i \in Range(e.server.row_list) |-> [px \in Range(e.p_list) |->
                          value(race_id, k, i, px).val]]]]
        posted == post(e.sbb, PyStr("proof:t_values_for_all_output_commitments"),
                       PyDict([t_values |-> t_values]), FALSE, now)
    IN  IF raised # {}
          THEN \* every lookup that fails raises the same exception
               LET c == CHOOSE c \in raised : TRUE
               IN  Raise(value(c[1], c[2], c[3], c[4]).exc)
        ELSE IF posted.exc # NoExc THEN posted
        ELSE Return([e EXCEPT !.sbb = posted.val])

\* the elections of SpecTValues: one cut of two passes
ProverParameters ==
    {ep \in AcceptedParameters : ep.n_reps = 2 /\ ep.ballot_style # <<>>
                                   /\ Len(ep.ballot_style) = 1}

TValuesInit ==
    /\ arg \in ProverParameters
    /\ \E e \in {Election(arg, 0)} :
         \E vs \in VoteSets(e), shift \in 0..(e.n_voters - 1),
            ds \in [1..(e.n_voters - 1) -> Digest] :
           /\ votes = vs
           /\ election = WithFullOutput(e, vs, shift, ds)
           /\ ret = Return([shift |-> shift])
    /\ op = ""
    /\ pc = "compute_and_post_t_values"
    /\ err = NoExc
    /\ sbb = <<>>
    /\ clock = <<0>>
    /\ randomness_sources = <<>>
    /\ sha = <<>>

\* compute_and_post_t_values(election)
ProverComputeAndPostTValues ==
    /\ pc = "compute_and_post_t_values"
    /\ \E r \in {compute_and_post_t_values(election, clock[1])} :
         /\ err' = r.exc
         /\ election' = IF r.exc = NoExc THEN r.val ELSE election
         /\ pc' = IF r.exc = NoExc THEN "make_verifier_challenges" ELSE "raised"
    /\ op' = "compute_and_post_t_values"
    /\ UNCHANGED <<arg, ret, votes, sbbVars, svVars>>

TValuesNext == ProverComputeAndPostTValues

SpecTValues == TValuesInit /\ [][TValuesNext]_vars

\* the last entry of the board of the election
LastPost(e) == e.sbb.board[Len(e.sbb.board)]

\* C13: compute_and_post_t_values posts, for every race, pass k, input
\* position px and row i, tu = (uy - ux) mod M and tv = (vy - vx) mod M,
\* (uy, vy) being the output split at the position that px is mixed to;
\* and the rows' (i, tu) and (i, tv) Lagrange-reconstruct to t and t' with
\* (t + t') mod M = 0.
C13_TValues ==
    op = "compute_and_post_t_values" =>
      /\ err = NoExc
      /\ LET e == election
             proof == HonestProof(e, votes, ret.val.shift)
             t_values == LastPost(e)[2].t_values
         IN  \A race_id \in Range(e.race_ids), k \in Range(e.k_list), px \in Range(e.p_list) :
               LET M == RaceOf(e, race_id).race_modulus
                   py == HonestPy(e, ret.val.shift, k, px)
                   t(i) == t_values[race_id][k][i][px]
                   rows(name) == [row \in 1..e.server.rows |->
                                    <<row, t(e.server.row_list[row])[name]>>]
                   tu0 == lagrange(rows("tu"), e.server.rows, e.server.threshold, M)
                   tv0 == lagrange(rows("tv"), e.server.rows, e.server.threshold, M)
               IN  /\ \A i \in Range(e.server.row_list) :
                         /\ t(i).tu = (proof.output[race_id][k][py][i].u
                                         - proof.input[race_id][px][i].u) % M
                         /\ t(i).tv = (proof.output[race_id][k][py][i].v
                                         - proof.input[race_id][px][i].v) % M
                   /\ tu0.exc = NoExc /\ tv0.exc = NoExc
                   /\ (tu0.val + tv0.val) % M = 0

\* compute_and_post_t_values raises KeyError and posts nothing
TValuesRaise ==
    op = "compute_and_post_t_values" =>
      /\ err = "KeyError"
      /\ Headers(election.sbb.board) = Headers(Election(arg, 0).sbb.board)

(***************************************************************************)
(* SpecOpenings: post_cast_votes and prove_input_consistent on an election *)
(* as Election.__init__ builds it, or on one whose cast_votes is the list  *)
(* of the votes of an honest election in the form Voter.cast_votes appends *)
(* them: (race_id, ballot_id, i, x, u, v, ru, rv, pair), i being the index *)
(* of the row in share_list, from 0.                                       *)
(***************************************************************************)
\* the votes of all voters, voter by voter, race by race, row by row
CastVotesList(e, vs) ==
    LET R == Len(e.race_ids)
        rows == e.server.rows
    IN  [n \in 1..(e.n_voters * R * rows) |->
           LET p == e.p_list[((n - 1) \div (R * rows)) + 1]
               race_id == e.race_ids[(((n - 1) \div rows) % R) + 1]
               i == (n - 1) % rows
               in == HonestInput(e, vs, race_id, p, e.server.row_list[i + 1])
           IN  [race_id |-> race_id, ballot_id |-> <<"ballot", race_id, p>>, i |-> i,
                x |-> in.x, u |-> in.u, v |-> in.v, ru |-> in.ru, rv |-> in.rv,
                pair |-> <<in.cu, in.cv>>]]

\* the items that "for ... in election.cast_votes" visits
CastVotesOf(e) ==
    IF e.cast_votes.type = "list" THEN e.cast_votes.l ELSE <<>>

RECURSIVE PostCastVotesLoop(_, _, _)
\* the loop of post_cast_votes from item n on; st holds cast_vote_dict,
\* last_ballot_id (None before the first item), last_race_id and
\* pair_list_for_ballot_id
PostCastVotesLoop(cast_votes, n, st) ==
    IF n > Len(cast_votes) THEN st
    ELSE LET vote == cast_votes[n]
             flushed == [st.cast_vote_dict EXCEPT
                           ![st.last_race_id] =
                              Append(@, [ballot_id |-> st.last_ballot_id.id,
                                         pair_list |-> st.pair_list])]
         IN  PostCastVotesLoop(cast_votes, n + 1,
               IF st.last_ballot_id = PyNone
                 THEN [st EXCEPT !.pair_list = Append(@, vote.pair),
                                 !.last_ballot_id = [id |-> vote.ballot_id],
                                 !.last_race_id = vote.race_id]
               ELSE IF [id |-> vote.ballot_id] = st.last_ballot_id
                 THEN [st EXCEPT !.pair_list = Append(@, vote.pair)]
               ELSE [cast_vote_dict |-> flushed,
                     last_race_id |-> vote.race_id,
                     last_ballot_id |-> [id |-> vote.ballot_id],
                     pair_list |-> <<vote.pair>>])

\* post_cast_votes(election): the exception and the election after the call
post_cast_votes(e, now) ==
    LET st == PostCastVotesLoop(CastVotesOf(e), 1,
                [cast_vote_dict |-> [race_id \in Range(e.race_ids) |-> <<>>],
                 last_ballot_id |-> PyNone, last_race_id |-> "", pair_list |-> <<>>])
        cast_vote_dict ==
            IF st.pair_list # <<>>
              THEN [st.cast_vote_dict EXCEPT
                      ![st.last_race_id] =
                         Append(@, [ballot_id |-> st.last_ballot_id.id,
                                    pair_list |-> st.pair_list])]
              ELSE st.cast_vote_dict
        posted == post(e.sbb, PyStr("casting:votes"),
                       PyDict([cast_vote_dict |-> cast_vote_dict]), FALSE, now)
    IN  [exc |-> posted.exc,
         val |-> IF posted.exc = NoExc THEN [e EXCEPT !.sbb = posted.val] ELSE e]

\* make_list_of_input_commitment_pairs(election, race, row_i): the votes
\* of the race whose i equals row_i, each as the pair (ucom, vcom)
make_list_of_input_commitment_pairs(e, race, row_i) ==
    LET cast_votes == CastVotesOf(e)
        picked == {n \in DOMAIN cast_votes :
                     /\ cast_votes[n].race_id = race.race_id
                     /\ PyInt(cast_votes[n].i) = PyStr(row_i)}
        vote(x) == cast_votes[SortedInts(picked)[x]]
    IN  [x \in 1..Cardinality(picked) |->
           <<[race_id |-> vote(x).race_id, ballot_id |-> vote(x).ballot_id,
              i |-> vote(x).i, u |-> vote(x).u, ru |-> vote(x).ru,
              com_u_ru |-> vote(x).pair[1]],
             [race_id |-> vote(x).race_id, ballot_id |-> vote(x).ballot_id,
              i |-> vote(x).i, v |-> vote(x).v, rv |-> vote(x).rv,
              com_v_rv |-> vote(x).pair[2]]>>]

\* half_open_commitments_from_list with both halves posted
half_open_commitments_from_list_both(commitments, leftright) ==
    IF Len(commitments) # Len(leftright) THEN Raise("AssertionError")
    ELSE Return([x \in 1..Len(commitments) |-> commitments[x][1] @@ commitments[x][2]])

\* half_open_commitments_from_list(election, commitments, leftright)
half_open_commitments_from_list(commitments, leftright) ==
    IF Len(commitments) # Len(leftright) THEN Raise("AssertionError")
    ELSE Return([x \in 1..Len(commitments) |->
                   IF leftright[x] = "left" THEN commitments[x][1]
                                            ELSE commitments[x][2]])

\* prove_input_consistent(election, challenges): the exception and the
\* election after the call.  make_list_of_output_commitment_pairs reads
\* the name py, which is bound nowhere, in the first round of its loop.
prove_input_consistent(e, challenges, now) ==
    LET icl == challenges.d.cut.d.icl.l
        leftright_dict == challenges.d.leftright.d
        opened(race_id, i) ==
            half_open_commitments_from_list(
                make_list_of_input_commitment_pairs(e, RaceOf(e, race_id), i),
                leftright_dict[race_id].l)
        results == [c \in Range(e.race_ids) \X Range(e.server.row_list) |->
                      opened(c[1], c[2])]
        raised == {c \in DOMAIN results : results[c].exc # NoExc}
        commitments == [race_id \in Range(e.race_ids) |->
                          [row \in 1..e.server.rows |->
                             results[<<race_id, e.server.row_list[row]>>].val]]
        posted == post(e.sbb, PyStr("proof:input_check:input_openings"),
                       PyDict([opened_commitments |-> commitments]), FALSE, now)
        outputs == post(posted.val, PyStr("proof:input_check:output_openings"),
                        PyDict([opened_commitments |-> <<>>]), FALSE, now)
    IN  IF raised # {}
          THEN \* every list that fails raises the same exception
               [exc |-> results[CHOOSE c \in raised : TRUE].exc, val |-> e]
        ELSE IF posted.exc # NoExc THEN [exc |-> posted.exc, val |-> e]
        ELSE IF e.race_ids # <<>> /\ icl # <<>> /\ e.server.rows > 0
          THEN IF \E k \in Range(icl) : k \notin Range(e.k_list)
                 THEN [exc |-> "AssertionError", val |-> [e EXCEPT !.sbb = posted.val]]
               ELSE IF e.n_voters > 0
                 THEN [exc |-> "NameError", val |-> [e EXCEPT !.sbb = posted.val]]
               ELSE [exc |-> outputs.exc, val |-> [e EXCEPT !.sbb = outputs.val]]
        ELSE [exc |-> outputs.exc,
              val |-> IF outputs.exc = NoExc THEN [e EXCEPT !.sbb = outputs.val]
                                             ELSE [e EXCEPT !.sbb = posted.val]]

\* the challenges an election can be given: a cut of the passes and a
\* list of n_voters picks for every race
ChallengesOf(e) ==
    {PyDict([cut |-> PyDict([icl |-> PyList(cut.icl), opl |-> PyList(cut.opl)]),
             leftright |-> PyDict([race_id \in Range(e.race_ids) |-> PyList(lr[race_id])])]) :
       cut \in {CutAndChoose(e.k_list, pi, e.n_reps \div 2) :
                  pi \in Permutations(0..(2 * (e.n_reps \div 2) - 1))},
       lr \in [Range(e.race_ids) -> [1..e.n_voters -> {"left", "right"}]]}

OpeningsInit ==
    /\ arg \in {ep \in AcceptedParameters : ep.n_reps = 2}
    /\ \E e \in {Election(arg, 0)} :
         \E vs \in VoteSets(e), listed \in BOOLEAN :
           /\ votes = vs
           /\ election = IF listed
                           THEN [e EXCEPT !.cast_votes = PyList(CastVotesList(e, vs))]
                           ELSE e
           /\ ret \in ChallengesOf(e)
    /\ op = ""
    /\ pc = "post_cast_votes"
    /\ err = NoExc
    /\ sbb = <<>>
    /\ clock = <<0>>
    /\ randomness_sources = <<>>
    /\ sha = <<>>

\* sv_voter.post_cast_votes(election)
PostCastVotes ==
    /\ pc = "post_cast_votes"
    /\ \E r \in {post_cast_votes(election, clock[1])} :
         /\ err' = r.exc
         /\ election' = r.val
         /\ pc' = IF r.exc = NoExc THEN "prove_input_consistent" ELSE "raised"
    /\ op' = "post_cast_votes"
    /\ UNCHANGED <<arg, ret, votes, sbbVars, svVars>>

\* sv_prover.prove_input_consistent(election, challenges)
ProveInputConsistent ==
    /\ pc = "prove_input_consistent"
    /\ \E r \in {prove_input_consistent(election, ret, clock[1])} :
         /\ err' = r.exc
         /\ election' = r.val
         /\ pc' = IF r.exc = NoExc THEN "compute_and_post_pik_list" ELSE "raised"
    /\ op' = "prove_input_consistent"
    /\ UNCHANGED <<arg, ret, votes, sbbVars, svVars>>

OpeningsNext == PostCastVotes \/ ProveInputConsistent

SpecOpenings == OpeningsInit /\ [][OpeningsNext]_vars

\* the payloads posted under a header
PostedUnder(e, header) ==
    {e.sbb.board[n][2] : n \in {n \in DOMAIN e.sbb.board : e.sbb.board[n][1] = header}}

\* C14: the transcript never reveals both halves of a cast vote: the items
\* of casting:votes hold a ballot id and pairs of commitments only, and once
\* prove_input_consistent has run, for every race, voter p and row i the
\* input openings hold exactly one record, with u and ru and neither v, rv
\* nor x if the pick for p is "left", with v and rv and neither u, ru nor x
\* otherwise.
C14_OneHalfOpened ==
    /\ \A posted \in PostedUnder(election, "casting:votes") :
         \A race_id \in DOMAIN posted.cast_vote_dict :
           \A n \in DOMAIN posted.cast_vote_dict[race_id] :
             /\ DOMAIN posted.cast_vote_dict[race_id][n] = {"ballot_id", "pair_list"}
             /\ \A pair \in Range(posted.cast_vote_dict[race_id][n].pair_list) :
                  /\ Len(pair) = 2
                  /\ \A c \in Range(pair) : "hmac" \in DOMAIN base64_2_bytes(c)
    /\ op = "prove_input_consistent" /\ election.cast_votes.type = "list" =>
         /\ PostedUnder(election, "proof:input_check:input_openings") # {}
         /\ \A posted \in PostedUnder(election, "proof:input_check:input_openings") :
              \A race_id \in Range(election.race_ids), row \in 1..election.server.rows,
                 p \in 1..election.n_voters :
                LET opened == posted.opened_commitments[race_id][row]
                    leftright == ret.d.leftright.d[race_id].l
                    in == HonestInput(election, votes, race_id, election.p_list[p],
                                      election.server.row_list[row])
                IN  /\ Len(opened) = election.n_voters
                    /\ "x" \notin DOMAIN opened[p]
                    /\ IF leftright[p] = "left"
                         THEN /\ {"u", "ru"} \subseteq DOMAIN opened[p]
                              /\ {"v", "rv"} \cap DOMAIN opened[p] = {}
                              /\ opened[p].u = in.u /\ opened[p].ru = in.ru
                         ELSE /\ {"v", "rv"} \subseteq DOMAIN opened[p]
                              /\ {"u", "ru"} \cap DOMAIN opened[p] = {}
                              /\ opened[p].v = in.v /\ opened[p].rv = in.rv

\* with a race on the ballot prove_input_consistent raises AssertionError
\* and posts nothing: no vote has the name of a row as its i
InputOpeningsRaise ==
    op = "prove_input_consistent" /\ election.race_ids # <<>> =>
      /\ err = "AssertionError"
      /\ PostedUnder(election, "proof:input_check:input_openings") = {}

(***************************************************************************)
(* SpecTimes: the board of a run, entry by entry as SBB.post appends them  *)
(* while the wall clock advances, or a transcript with entries written by  *)
(* another hand; then check_monotonic_time and                             *)
(* check_consistent_election_ids of the verifier on it.  pc tells whether  *)
(* all entries are from SBB.post ("posted") or not ("written"); ret holds  *)
(* the time stamps that check_monotonic_time has compared.                 *)
(***************************************************************************)
\* what the election passes to sbb.post
ElectionPosts ==
    {<<PyStr("setup:start"), PyDict([election_id |-> "e", about |-> "about"]), TRUE>>,
     <<PyStr("setup:finished"), PyNone, TRUE>>,
     <<PyStr("setup:voters"), PyDict([n_voters |-> 1]), FALSE>>}

\* entries of a transcript in the form the verifier reads
WrittenItems ==
    {<<"setup:finished", [time |-> t]>> : t \in 0..MaxClock}
      \cup {<<"tally:results", [election_id |-> id, time |-> t]>> :
              id \in {"e", "f"}, t \in 0..MaxClock}

TimesInit ==
    /\ clock \in [{1} -> 0..MaxClock]
    /\ sbb = SBB("e", clock[1]).val
    /\ pc = "posted"
    /\ op = "SBB"
    /\ arg = <<>>
    /\ ret = Return(<<>>)
    /\ err = NoExc
    /\ randomness_sources = <<>>
    /\ sha = <<>>
    /\ election = <<>>
    /\ votes = <<>>

\* a second passes
TimesTick ==
    /\ op # "verify"
    /\ clock[1] < MaxClock
    /\ clock' = [clock EXCEPT ![1] = @ + 1]
    /\ UNCHANGED <<sbb, callVars, svVars, runVars>>

\* election.sbb.post(msg_header, msg_dict, time_stamp)
TimesPost ==
    /\ op # "verify"
    /\ Len(sbb.board) < MaxBoard + 1
    /\ \E call \in ElectionPosts :
         /\ sbb' = post(sbb, call[1], call[2], call[3], clock[1]).val
         /\ arg' = call
    /\ op' = "post"
    /\ UNCHANGED <<clock, ret, svVars, runVars>>

\* an entry is written to the transcript by another hand
TimesWrite ==
    /\ op # "verify"
    /\ Len(sbb.board) < MaxBoard + 1
    /\ \E item \in WrittenItems :
         /\ sbb' = [sbb EXCEPT !.board = Append(@, item)]
         /\ arg' = item
    /\ op' = "write"
    /\ pc' = "written"
    /\ UNCHANGED <<clock, ret, err, election, votes, svVars>>

\* check_monotonic_time(sbb); check_consistent_election_ids(sbb)
TimesCheck ==
    /\ op # "verify"
    /\ op' = "verify"
    /\ err' = IF \E x \in DOMAIN sbb.board : Len(sbb.board[x]) < 2 THEN "IndexError"
              ELSE IF check_monotonic_time(sbb.board) # NoExc
                THEN check_monotonic_time(sbb.board)
              ELSE check_consistent_election_ids(sbb.board)
    /\ ret' = Return(AttributeValues(sbb.board, "time"))
    /\ UNCHANGED <<arg, sbb, clock, election, votes, pc, svVars>>

TimesNext == TimesTick \/ TimesPost \/ TimesWrite \/ TimesCheck

SpecTimes == TimesInit /\ [][TimesNext]_vars

\* the values a sequence of items holds under one of the names, in order
Stamps(sbb_list, names) ==
    LET having == SortedInts({x \in DOMAIN sbb_list : DOMAIN sbb_list[x][2] \cap names # {}})
    IN  [x \in DOMAIN having |->
           sbb_list[having[x]][2][CHOOSE name \in names :
                                     name \in DOMAIN sbb_list[having[x]][2]]]

\* the checks pass only if the values of 'time' are non-decreasing in
\* posting order and the values of 'election_id' are all the same
AcceptedOnlyIfOrdered ==
    (op = "verify" /\ err = NoExc) =>
      LET times == Stamps(sbb.board, {"time"})
          ids == Stamps(sbb.board, {"election_id"})
      IN  /\ \A x, y \in DOMAIN times : x <= y => times[x] <= times[y]
          /\ \A x, y \in DOMAIN ids : ids[x] = ids[y]

\* C16: verify accepts a transcript only if its time stamps are
\* non-decreasing in posting order and every entry with an election_id has
\* the same one; and on the board of a run, check_monotonic_time compares
\* every time stamp that SBB.post has written and finds them
\* non-decreasing.
C16_TimesChecked ==
    /\ AcceptedOnlyIfOrdered
    /\ (op = "verify" /\ pc = "posted") =>
         /\ err = NoExc
         /\ Len(ret.val) = Len(Stamps(sbb.board, {"time", "time_iso8601"}))
         /\ Len(ret.val) > 0

\* on the board of a run check_monotonic_time finds no time stamp to
\* compare: SBB.post writes them under 'time_iso8601'
TimesNotInspected ==
    (op = "verify" /\ pc = "posted") =>
      /\ ret.val = <<>>
      /\ Len(Stamps(sbb.board, {"time_iso8601"})) > 0

(***************************************************************************)
(* SpecServer: Server(election, n_fail, n_leak) for an election of one     *)
(* race and two passes.  arg holds n_fail and n_leak, election the server  *)
(* built.                                                                  *)
(***************************************************************************)
ServerInit ==
    /\ arg \in [n_fail : (-1)..MaxGrid, n_leak : (-1)..MaxGrid]
    /\ op = ""
    /\ ret = Return(<<>>)
    /\ election = <<>>
    /\ err = NoExc
    /\ pc = ""
    /\ sbb = <<>>
    /\ clock = <<>>
    /\ votes = <<>>
    /\ randomness_sources = <<>>
    /\ sha = <<>>

\* Server(election, n_fail, n_leak)
ServerNew ==
    /\ op = ""
    /\ op' = "Server"
    /\ \E server \in {Server(<<"taxes">>, k_list(2), arg.n_fail, arg.n_leak)} :
         /\ err' = server.exc
         /\ election' = server.val
    /\ UNCHANGED <<arg, ret, pc, sbb, clock, votes, svVars>>

ServerNext == ServerNew

SpecServer == ServerInit /\ [][ServerNext]_vars

\* C17: the server array that Server.__init__ accepts has, if n_fail > 0,
\* cols = 1 + n_leak, rows = 2 + n_fail + n_leak and threshold = 2 + n_leak,
\* otherwise cols = rows = threshold = 1 + n_leak; and
\* 1 <= threshold <= rows <= 26 and cols >= 1.
C17_Grid ==
    (op = "Server" /\ err = NoExc) =>
      LET server == election
      IN  /\ arg.n_fail > 0 =>
               /\ server.cols = 1 + arg.n_leak
               /\ server.rows = 2 + arg.n_fail + arg.n_leak
               /\ server.threshold = 2 + arg.n_leak
          /\ ~(arg.n_fail > 0) =>
               /\ server.cols = 1 + arg.n_leak
               /\ server.rows = 1 + arg.n_leak
               /\ server.threshold = 1 + arg.n_leak
          /\ 1 <= server.threshold
          /\ server.threshold <= server.rows
          /\ server.rows <= 26
          /\ server.cols >= 1
          /\ Len(server.row_list) = server.rows

\* an accepted array of 26 rows with servers that may fail and leak
C17_Witness ==
    /\ op = "Server"
    /\ err = NoExc
    /\ arg.n_fail > 1
    /\ arg.n_leak > 0
    /\ election.rows = 26

\* Server.__init__ rejects the arrays of more than 26 rows and the negative
\* parameters, and no others
ServerRejects ==
    op = "Server" =>
      (err # NoExc <=> \/ arg.n_fail < 0
                       \/ arg.n_leak < 0
                       \/ (IF arg.n_fail > 0 THEN 2 + arg.n_fail + arg.n_leak
                                             ELSE 1 + arg.n_leak) > 26)

(***************************************************************************)
(* SpecRace: choice_str2int on a valid choice of a race, then              *)
(* choice_int2str on the result.  election holds the race, arg the choice, *)
(* votes the integer, ret the result of the last call.                     *)
(***************************************************************************)
\* the choices of the races: listed choices only, listed choices and a
\* write-in slot, a write-in slot only
RaceChoices ==
    {<<"y", "n">>, <<"t", "*">>, <<"ty", "**">>, <<"*">>, <<"**">>}

ChoiceLetters == {"a", "n", "t", "y"}

\* the strings of up to two letters
ChoiceStrings ==
    {""} \cup ChoiceLetters \cup {a \o b : a \in ChoiceLetters, b \in ChoiceLetters}

RaceInit ==
    /\ \E choices \in RaceChoices :
         /\ election = Race("race", choices)
         /\ arg \in {choice \in ChoiceStrings :
                       is_valid_choice([choices |-> choices], choice)}
    /\ op = ""
    /\ ret = Return(<<>>)
    /\ votes = <<>>
    /\ err = NoExc
    /\ pc = ""
    /\ sbb = <<>>
    /\ clock = <<>>
    /\ randomness_sources = <<>>
    /\ sha = <<>>

\* choice_int = race.choice_str2int(choice_str)
RaceStr2Int ==
    /\ op = ""
    /\ op' = "choice_str2int"
    /\ ret' = choice_str2int(election, arg)
    /\ err' = ret'.exc
    /\ votes' = ret'.val
    /\ UNCHANGED <<arg, election, pc, sbb, clock, svVars>>

\* race.choice_int2str(choice_int)
RaceInt2Str ==
    /\ op = "choice_str2int"
    /\ err = NoExc
    /\ op' = "choice_int2str"
    /\ ret' = choice_int2str(election, votes)
    /\ err' = ret'.exc
    /\ UNCHANGED <<arg, election, votes, pc, sbb, clock, svVars>>

RaceNext == RaceStr2Int \/ RaceInt2Str

SpecRace == RaceInit /\ [][RaceNext]_vars

\* race_modulus is the smallest prime that is at least 256^L, L being the
\* greatest length in bytes of the choices of the race
ModulusIsNextPrime ==
    LET L == Max({Len(encode(c)) : c \in Range(election.choices)})
        M == election.race_modulus
    IN  /\ M >= Power(256, L)
        /\ IsPrimeNumber(M)
        /\ \A r \in Power(256, L)..(M - 1) : ~IsPrimeNumber(r)

\* C18: race_modulus is the smallest prime >= 256^L; every valid choice c
\* of the race, the empty write-in included, has choice_str2int(c) in
\* [0, M), and choice_int2str(choice_str2int(c)) = c.
C18_ChoiceRoundTrip ==
    /\ ModulusIsNextPrime
    /\ op = "choice_str2int" =>
         /\ err = NoExc
         /\ 0 <= ret.val /\ ret.val < election.race_modulus
    /\ op = "choice_int2str" =>
         /\ err = NoExc
         /\ ret.val = arg

\* every valid choice but the empty write-in is encoded in [0, M) and
\* decoded to itself; the empty write-in is encoded as 0 and decoded to a
\* string of one character
NonEmptyChoiceRoundTrip ==
    /\ ModulusIsNextPrime
    /\ op = "choice_str2int" =>
         /\ err = NoExc
         /\ 0 <= ret.val /\ ret.val < election.race_modulus
    /\ op = "choice_int2str" =>
         /\ err = NoExc
         /\ arg # "" => ret.val = arg
         /\ arg = "" => votes = 0 /\ Len(ret.val) = 1

(***************************************************************************)
(* SpecProof: make_proof from post_output_commitments on, on the server    *)
(* array of SpecTValues.  pc is the statement of make_proof to run next.   *)
(***************************************************************************)
\* post_output_commitments(election); full_output holds the pairs that
\* make_full_output has stored in the last column
post_output_commitments(e, now) ==
    LET cols == e.server.cols
        coms == [race_id \in Range(e.race_ids) |-> [k \in Range(e.k_list) |->
                   [py \in Range(e.p_list) |-> [i \in Range(e.server.row_list) |->
                      [pair |-> e.server.sdb[race_id][i][cols - 1][k].pair.d[py]]]]]]
        posted == post(e.sbb, PyStr("proof:all_output_commitments"),
                       PyDict([commitments |-> coms]), FALSE, now)
    IN  IF posted.exc # NoExc THEN posted
        ELSE Return([e EXCEPT !.sbb = posted.val])

ProofInit ==
    /\ arg \in ProverParameters
    /\ \E e \in {Election(arg, 0)} :
         \E vs \in VoteSets(e), shift \in 0..(e.n_voters - 1),
            ds \in [1..(e.n_voters - 1) -> Digest] :
           /\ votes = vs
           /\ election = WithFullOutput(e, vs, shift, ds)
           /\ ret = Return([shift |-> shift])
    /\ op = ""
    /\ pc = "post_output_commitments"
    /\ err = NoExc
    /\ sbb = <<>>
    /\ clock = <<0>>
    /\ randomness_sources = <<>>
    /\ sha = <<>>

\* post_output_commitments(election)
ProverPostOutputCommitments ==
    /\ pc = "post_output_commitments"
    /\ \E r \in {post_output_commitments(election, clock[1])} :
         /\ err' = r.exc
         /\ election' = IF r.exc = NoExc THEN r.val ELSE election
         /\ pc' = IF r.exc = NoExc THEN "compute_and_post_t_values" ELSE "raised"
    /\ op' = "post_output_commitments"
    /\ UNCHANGED <<arg, ret, votes, sbbVars, svVars>>

ProofNext == ProverPostOutputCommitments \/ ProverComputeAndPostTValues

SpecProof == ProofInit /\ [][ProofNext]_vars

\* the places on the board of the entries whose header has the prefix
PlacesOf(board, prefix) ==
    {n \in DOMAIN board : Prefix(board[n][1], Len(prefix)) = prefix}

\* C19: commit before challenge: once make_proof is past
\* compute_and_post_t_values, the output commitments and the t-values of
\* all passes k are on the board; the challenges entry comes after both
\* and carries the hash of exactly the entries before it; and every
\* opening (outcome check, input openings, output openings, pik) comes
\* after the challenges entry.
C19_CommitBeforeChallenge ==
    LET board == election.sbb.board
        commitments == PlacesOf(board, "proof:all_output_commitments")
        t_values == PlacesOf(board, "proof:t_values_for_all_output_commitments")
        challenges == PlacesOf(board, "proof:verifier_challenges")
        openings == PlacesOf(board, "proof:outcome_check")
                      \cup PlacesOf(board, "proof:input_check")
    IN  /\ pc \notin {"post_output_commitments", "compute_and_post_t_values"} =>
             /\ commitments # {}
             /\ t_values # {}
             /\ \A n \in t_values :
                  \A race_id \in Range(election.race_ids) :
                    DOMAIN board[n][2].t_values[race_id] = Range(election.k_list)
        /\ \A c \in challenges :
             /\ \E n \in commitments : n < c
             /\ \E n \in t_values : n < c
             /\ board[c][2].sbb_hash = bytes2hex(secure_hash(dumps(SubSeq(board, 1, c - 1)), 2))
        /\ \A o \in openings : challenges # {} /\ \A c \in challenges : c < o

\* make_proof stops in compute_and_post_t_values: the commitments are
\* posted, and neither t-values nor challenges nor openings
ProofStopsBeforeChallenges ==
    LET board == election.sbb.board
    IN  /\ pc \in {"post_output_commitments", "compute_and_post_t_values", "raised"}
        /\ pc = "raised" => op = "compute_and_post_t_values" /\ err = "KeyError"
        /\ PlacesOf(board, "proof:t_values") = {}
        /\ PlacesOf(board, "proof:verifier_challenges") = {}
        /\ PlacesOf(board, "proof:outcome_check") = {}
        /\ PlacesOf(board, "proof:input_check") = {}
        /\ pc # "post_output_commitments" =>
             PlacesOf(board, "proof:all_output_commitments") # {}

(***************************************************************************)
(* SpecPik: compute_and_post_pik_list on the server array of SpecTValues,  *)
(* with the challenges in ret.                                             *)
(***************************************************************************)
\* compute_and_post_pik_list(election, challenges): the exception and the
\* election after the call.  The loop "for py in range(election.p_list)"
\* calls range on a list.
compute_and_post_pik_list(e, challenges, now) ==
    LET icl == challenges.d.cut.d.icl.l
        posted == post(e.sbb, PyStr("proof:input_check:pik_for_k_in_icl"),
                       PyDict([list |-> <<>>]), FALSE, now)
    IN  IF e.race_ids # <<>> /\ icl # <<>>
          THEN [exc |-> "TypeError", val |-> e]
        ELSE [exc |-> posted.exc,
              val |-> IF posted.exc = NoExc THEN [e EXCEPT !.sbb = posted.val] ELSE e]

PikInit ==
    /\ arg \in ProverParameters
    /\ \E e \in {Election(arg, 0)} :
         \E vs \in VoteSets(e), shift \in 0..(e.n_voters - 1),
            ds \in [1..(e.n_voters - 1) -> Digest] :
           /\ votes = vs
           /\ election = WithFullOutput(e, vs, shift, ds)
           /\ ret \in {[shift |-> shift, challenges |-> chs] : chs \in ChallengesOf(e)}
    /\ op = ""
    /\ pc = "compute_and_post_pik_list"
    /\ err = NoExc
    /\ sbb = <<>>
    /\ clock = <<0>>
    /\ randomness_sources = <<>>
    /\ sha = <<>>

\* compute_and_post_pik_list(election, challenges)
ProverComputeAndPostPikList ==
    /\ pc = "compute_and_post_pik_list"
    /\ \E r \in {compute_and_post_pik_list(election, ret.challenges, clock[1])} :
         /\ err' = r.exc
         /\ election' = r.val
         /\ pc' = IF r.exc = NoExc THEN "return" ELSE "raised"
    /\ op' = "compute_and_post_pik_list"
    /\ UNCHANGED <<arg, ret, votes, sbbVars, svVars>>

PikNext == ProverComputeAndPostPikList

SpecPik == PikInit /\ [][PikNext]_vars

\* C21: for every race and pass k in icl the posted pik is a permutation of
\* p_list (its keys and its values are the labels of p_list) and maps each
\* output position py to the input position that the mix of pass k moved
\* to py.
C21_PikPosted ==
    op = "compute_and_post_pik_list" =>
      /\ err = NoExc
      /\ LET entry == LastPost(election)
             e == election
         IN  /\ entry[1] = "proof:input_check:pik_for_k_in_icl"
             /\ \A race_id \in Range(e.race_ids), k \in PikPasses(ret.challenges) :
                  \E n \in DOMAIN entry[2].list :
                    LET item == entry[2].list[n]
                    IN  /\ item.race_id = race_id /\ item.k = k
                        /\ DOMAIN item.pik = Range(e.p_list)
                        /\ Range(item.pik) = Range(e.p_list)
                        /\ \A py \in Range(e.p_list) :
                             item.pik[py] = HonestPik(e, ret.shift, k, py)

\* compute_and_post_pik_list raises TypeError and posts nothing
PikRaises ==
    op = "compute_and_post_pik_list" =>
      /\ err = "TypeError"
      /\ PlacesOf(election.sbb.board, "proof:input_check") = {}

(***************************************************************************)
(* SpecOutputOpenings: the body of the second loop of                      *)
(* prove_input_consistent, for one race, pass k of icl and row i, on the   *)
(* server array of SpecTValues.  arg holds race_id, k and i.               *)
(***************************************************************************)
\* make_list_of_output_commitment_pairs(election, race, i, k).  The loop
\* "for iy in range(election.n_voters)" reads the name py, which is bound
\* nowhere; with no voter the list is empty and apply_permutation gives an
\* empty dict.
make_list_of_output_commitment_pairs(e, race, i, k) ==
    IF k \notin Range(e.k_list) THEN Raise("AssertionError")
    ELSE IF e.n_voters > 0 THEN Raise("NameError")
    ELSE Return(<<>>)

OutputOpeningsInit ==
    /\ \E ep \in ProverParameters :
         \E e \in {Election(ep, 0)} :
           \E vs \in VoteSets(e), shift \in 0..(e.n_voters - 1),
              ds \in [1..(e.n_voters - 1) -> Digest] :
             /\ votes = vs
             /\ election = WithFullOutput(e, vs, shift, ds)
             /\ ret \in {[shift |-> shift, challenges |-> chs] : chs \in ChallengesOf(e)}
             /\ arg \in [race_id : Range(e.race_ids),
                         k : PikPasses(ret.challenges),
                         i : Range(e.server.row_list)]
    /\ op = ""
    /\ pc = "prove_input_consistent"
    /\ err = NoExc
    /\ sbb = <<>>
    /\ clock = <<0>>
    /\ randomness_sources = <<>>
    /\ sha = <<>>

\* half_open_commitments_from_list(election,
\*     make_list_of_output_commitment_pairs(election, race, i, k), leftright)
ProverHalfOpenOutputs ==
    /\ pc = "prove_input_consistent"
    /\ \E pairs \in {make_list_of_output_commitment_pairs(
                         election, RaceOf(election, arg.race_id), arg.i, arg.k)} :
         \E r \in {IF pairs.exc # NoExc THEN pairs
                   ELSE half_open_commitments_from_list(
                            pairs.val, ret.challenges.d.leftright.d[arg.race_id].l)} :
           /\ err' = r.exc
           /\ ret' = ret @@ [opened |-> r.val]
           /\ pc' = IF r.exc = NoExc THEN "opened" ELSE "raised"
    /\ op' = "half_open_commitments_from_list"
    /\ UNCHANGED <<arg, votes, election, sbbVars, svVars>>

OutputOpeningsNext == ProverHalfOpenOutputs

SpecOutputOpenings == OutputOpeningsInit /\ [][OutputOpeningsNext]_vars

\* C22: for every race, pass k in icl, row i and output position py, the
\* half of the output commitment that the prover opens is selected by
\* leftright(px), px being the input position mixed to py: the opened list
\* is in the order of the input positions, and its entry for px is the u
\* half of the output at py if the pick for px is "left", the v half if not.
C22_OutputHalfByInputPosition ==
    op = "half_open_commitments_from_list" =>
      /\ err = NoExc
      /\ LET e == election
             leftright == ret.challenges.d.leftright.d[arg.race_id].l
         IN  /\ Len(ret.opened) = e.n_voters
             /\ \A x \in 1..e.n_voters :
                  LET py == HonestPy(e, ret.shift, arg.k, e.p_list[x])
                      out == HonestOutput(e, votes, ret.shift, arg.race_id, arg.k, py, arg.i)
                  IN  IF leftright[x] = "left"
                        THEN /\ "u" \in DOMAIN ret.opened[x]
                             /\ ret.opened[x].u = out.u /\ ret.opened[x].ru = out.ru
                        ELSE /\ "v" \in DOMAIN ret.opened[x]
                             /\ ret.opened[x].v = out.v /\ ret.opened[x].rv = out.rv

\* the list of output commitment pairs is never built: the call raises
\* NameError
OutputPairsRaise ==
    op = "half_open_commitments_from_list" => err = "NameError"

(***************************************************************************)
(* SpecOutcome: verify on the transcript a prover posts for an election    *)
(* whose outputs are consistent with what it commits to and opens.  The    *)
(* voters cast listed choices, write-ins, or a string that is no choice of *)
(* the race; the prover may commit, in one pass, to another share for the  *)
(* last row of one position, and opens what it committed to.  arg is that  *)
(* place (race_id, k, p, i), <<>> for an honest prover.                    *)
(***************************************************************************)
\* ballot styles: listed choices only, a write-in slot, and a listed choice
\* that begins with a star.  The race of the last has a modulus above 2^16;
\* it is run on the array of one row, where lagrange forms no product of
\* two residues (such products exceed 32-bit integers).
OutcomeBallotStyles ==
    {<<<<"taxes", <<"y", "n">>>>>>,
     <<<<"mayor", <<"t", "*">>>>>>,
     <<<<"prop", <<"*a", "b">>>>>>}

OutcomeParameters ==
    {ep \in [election_id : {"default_election"},
             ballot_style : OutcomeBallotStyles,
             n_voters : 1..MaxVoters,
             n_reps : {2},
             n_fail : 0..MaxFail,
             n_leak : {0},
             ballot_id_len : {32},
             json_indent : {0}] :
        /\ ParametersAccepted(ep)
        /\ ep.ballot_style[1][1] = "prop" => ep.n_fail = 0}

\* what a voter can cast in the race: a choice of the race, or "a"
OutcomeVotes(e) ==
    {(e.race_ids[1] :> f) :
       f \in [Range(e.p_list) -> VoterChoices(e.races[1]) \cup {"a"}]}

\* the places where the prover can commit to another share: the first
\* position of a pass, in the last row when there are more rows than the
\* threshold
OutcomePlaces(e) ==
    {<<>>} \cup
    {[race_id |-> e.race_ids[1], k |-> k, p |-> e.p_list[1],
      i |-> e.server.row_list[e.server.rows]] :
       k \in IF e.server.rows > e.server.threshold THEN Range(e.k_list) ELSE {}}

\* the output record that the honest prover has at the place bad
OutcomeRecord(e, vs, shift, bad) ==
    IF bad = <<>> THEN <<>>
    ELSE HonestOutput(e, vs, shift, bad.race_id, bad.k, bad.p, bad.i)

\* the entries before the challenges: the honest ones, but for the place
\* bad, where the prover commits to y + 1 split as (u + 1, v)
TamperedBoard(honest, bad, rec, M) ==
    IF bad = <<>> THEN honest
    ELSE Replaced(honest,
                  <<9, 2, "commitments", bad.race_id, bad.k, bad.p, bad.i, "cu">>,
                  com((rec.u + 1) % M, rec.ru).val)

\* the entries from the challenges on: the honest ones, but for the place
\* bad, where the prover opens what it committed to if the pass is in opl
TamperedAnswers(answers, bad, rec, M, opl) ==
    IF bad = <<>> \/ bad.k \notin opl THEN answers
    ELSE Replaced(Replaced(answers,
                           <<2, 2, "opened_output_commitments",
                             bad.race_id, bad.k, bad.p, bad.i, "y">>,
                           (rec.y + 1) % M),
                  <<2, 2, "opened_output_commitments",
                    bad.race_id, bad.k, bad.p, bad.i, "u">>,
                  (rec.u + 1) % M)

OutcomeInit ==
    /\ \E ep \in OutcomeParameters :
         \E e \in {Election(ep, 0)} :
           \E vs \in OutcomeVotes(e), shift \in 0..(e.n_voters - 1),
              ds \in [1..ChallengeDraws(e.n_reps, Len(e.race_ids), e.n_voters) -> 0..1],
              bad \in OutcomePlaces(e) :
             \E rec \in {OutcomeRecord(e, vs, shift, bad)},
                M \in {e.races[1].race_modulus},
                chs \in {HonestChallenges(e, ds)} :
               \E board \in {TamperedBoard(HonestBoard(e, vs, shift), bad, rec, M)} :
                 \E sbb_hash \in {bytes2hex(verifier_hash_sbb(board,
                                                "proof:verifier_challenges"))} :
                   \E answers \in {HonestAnswers(e, vs, shift, sbb_hash, chs)} :
                     /\ election = e
                     /\ votes = vs
                     /\ arg = bad
                     /\ sbb = board \o TamperedAnswers(answers, bad, rec, M,
                                                       Range(chs.opl.l))
                     /\ sha = (hex2bytes(sbb_hash) :> ds)
    /\ ret = Return(<<>>)
    /\ op = ""
    /\ pc = "load"
    /\ err = NoExc
    /\ clock = <<0>>
    /\ randomness_sources = <<>>

OutcomeNext == Verify

SpecOutcome == OutcomeInit /\ [][OutcomeNext]_vars

\* the passes whose outputs the transcript opens
OutcomeOpl == Range(SbbDict(sbb)["proof:verifier_challenges"].challenges.d.cut.d.opl.l)

\* the choice that the first threshold rows of (race_id, k, p) reconstruct
CountedChoice(race_id, k, p) ==
    OpenedChoice(SbbDict(sbb), DbOf(election), race_id, k, p)

\* the choice that the rows pick of (race_id, k, p) reconstruct
ReconstructedFrom(race_id, k, p, pick) ==
    LET db == DbOf(election)
        opened_coms == SbbDict(sbb)["proof:outcome_check"].opened_output_commitments
        w == lagrange([x \in DOMAIN pick |->
                         <<pick[x], opened_coms[race_id][k][p][db.row_list[pick[x]]].y>>],
                      db.rows, db.threshold, db.races[race_id].race_modulus)
    IN  IF w.exc # NoExc THEN w ELSE decode(int2bytes(w.val))

\* some opened position reconstructs to a string that is no valid choice
SomeInvalidChoice ==
    \E race_id \in Range(election.race_ids), k \in OutcomeOpl,
       p \in Range(election.p_list) :
       ~is_valid_choice(RaceOf(election, race_id), CountedChoice(race_id, k, p).val)

\* C25: verify rejects a transcript in which, for some race, pass k in opl
\* and position p, the value reconstructed from the opened y does not decode
\* to a valid choice of the race, even when the posted tally counts that
\* string.
C25_InvalidChoiceRejected ==
    (pc = "verified" /\ SomeInvalidChoice) => err # NoExc

\* what the code does instead: the validity of the choice is not checked, an
\* honest transcript with a string that is no choice is accepted like one
\* without (the two are rejected only for the listed choice with a star in
\* front)
InvalidChoiceNotChecked ==
    (pc = "verified" /\ arg = <<>> /\ election.race_ids[1] # "prop") => err = NoExc

\* C26: verify accepts an outcome-check pass k in opl only if, for each race
\* and position, every threshold-sized subset of the rows' opened y
\* reconstructs the choice that is counted (the one the first threshold rows
\* reconstruct).
C26_EverySubsetAgrees ==
    (pc = "verified" /\ err = NoExc) =>
        \A race_id \in Range(election.race_ids), k \in OutcomeOpl,
           p \in Range(election.p_list) :
           \A pick \in Arrangements(1..election.server.rows, election.server.threshold) :
              ReconstructedFrom(race_id, k, p, pick) = CountedChoice(race_id, k, p)

\* what the code does instead: a changed share of the last row in a pass of
\* opl, committed to and opened, is accepted
LastRowNotChecked ==
    (pc = "verified" /\ arg # <<>> /\ election.race_ids[1] # "prop") =>
        (arg.k \in OutcomeOpl => err = NoExc)

\* the transcript is the one of an honest election: the prover changed
\* nothing and every voter cast a choice of the race
HonestOutcome ==
    /\ arg = <<>>
    /\ \A race_id \in Range(election.race_ids), p \in Range(election.p_list) :
          votes[race_id][p] \in VoterChoices(RaceOf(election, race_id))

\* C30: for an honest transcript the per-pass tally that the verifier
\* recomputes has the keys and counts of the tally the prover posts, zero
\* counts included, for every ballot style (also with a choice that begins
\* with a star without being all stars, and with a write-in slot that gets
\* no vote), and the check passes.
C30_TalliesAgree ==
    (pc = "verified" /\ HonestOutcome) =>
        /\ err = NoExc
        /\ \A k \in OutcomeOpl :
              tally_k(SbbDict(sbb), DbOf(election), k)
                = SbbDict(sbb)["tally:results"].tally

\* the same for the ballot styles whose listed choices do not begin with a
\* star
TalliesAgreeWithoutLeadingStar ==
    (\A c \in Range(election.races[1].choices) :
        AllStars(c) \/ SubSeq(c, 1, 1) # "*") => C30_TalliesAgree

\* with a listed choice that begins with a star and is not all stars, the
\* honest transcript is rejected by the assertion on the tallies exactly
\* when no voter cast that choice
LeadingStarRejected ==
    (pc = "verified" /\ HonestOutcome /\ election.race_ids[1] = "prop")
       => (err = "AssertionError") =
             (\A p \in Range(election.p_list) : votes["prop"][p] # "*a")

(***************************************************************************)
(* SpecSources: a program that seeds and reads named randomness sources    *)
(* and tests numbers for primality, one call at a time.  When sv has been  *)
(* imported its self-tests have left the source "Miller_Rabin" behind,     *)
(* read MillerRabinTrials times.  The hash chains of the seeds are fixed   *)
(* from the start: a source produces what the chain of its seed holds at   *)
(* its position.                                                           *)
(***************************************************************************)
\* small_primes
small_primes == {2, 3, 5, 7, 11, 13, 17, 19, 23, 29, 31, 37, 41, 43, 47, 53,
                 59, 61, 67, 71, 73, 79, 83, 89, 97, 101}

\* the trials that is_prime asks of miller_rabin
MillerRabinTrials == 20

RECURSIVE TwoAdic(_)
\* the t with n = u * 2^t, u odd (n > 0)
TwoAdic(n) == IF n % 2 = 0 THEN 1 + TwoAdic(n \div 2) ELSE 0

\* witness(a, n)
witness(a, n) ==
    LET t == TwoAdic(n - 1)
        u == (n - 1) \div Power(2, t)
        x == [i \in 0..t |-> PowMod(a, u * Power(2, i), n)]
    IN  \/ \E i \in 1..t : x[i] = 1 /\ x[i - 1] # 1 /\ x[i - 1] # n - 1
        \/ x[t] # 1

\* miller_rabin(n, s), chain being what the source "Miller_Rabin" gives
\* after it is seeded: the answer, and the number of values read
miller_rabin(n, s, chain) ==
    LET found == {j \in 1..s : witness((chain[j] % (n - 1)) + 1, n)}
    IN  IF found = {} THEN [val |-> TRUE, draws |-> s]
        ELSE [val |-> FALSE, draws |-> CHOOSE j \in found : \A i \in found : j <= i]

\* is_prime(n): the answer, and the number of values miller_rabin read
\* (-1 when miller_rabin is not called)
is_prime(n, chain) ==
    IF n \in small_primes THEN [val |-> TRUE, draws |-> 0 - 1]
    ELSE IF n < Max(small_primes) THEN [val |-> FALSE, draws |-> 0 - 1]
    ELSE IF \E q \in small_primes : n % q = 0 THEN [val |-> FALSE, draws |-> 0 - 1]
    ELSE miller_rabin(n, MillerRabinTrials, chain)

RECURSIVE PrimeSearch(_, _, _)
\* the loop of next_prime from n on; draws is what the last call of
\* miller_rabin read so far
PrimeSearch(n, chain, draws) ==
    LET r == is_prime(n, chain)
        latest == IF r.draws >= 0 THEN r.draws ELSE draws
    IN  IF r.val THEN [val |-> n, draws |-> latest]
        ELSE PrimeSearch(n + 2, chain, latest)

\* next_prime(n)
next_prime(n, chain, draws) ==
    IF n + 1 <= 2 THEN [val |-> 2, draws |-> draws]
    ELSE PrimeSearch(IF (n + 1) % 2 = 0 THEN n + 2 ELSE n + 1, chain, draws)

\* make_prime(n) with what its last call of miller_rabin read (-1: none)
make_prime_draws(n, chain) ==
    LET r == is_prime(n, chain)
    IN  IF r.val THEN [val |-> n, draws |-> r.draws]
        ELSE next_prime(n, chain, r.draws)

\* the names of the sources: one of a voter, and the one of miller_rabin
SourcesNames == {"voter:0", "Miller_Rabin"}

\* what the chain of "Miller_Rabin" may be: zeros (every trial then draws
\* a = 1), ones, or a zero and then ones
MillerRabinChains ==
    {[j \in 1..MillerRabinTrials |-> IF j <= z THEN 0 ELSE c] :
       z \in {0, 1}, c \in {0, 1}}

\* what the chain of the voter's source may be
VoterChains == {[j \in 1..MaxDraws |-> (j * c) % DigestSpace] : c \in Digest}

\* the moduli handed to get_random_from_source
SourcesModuli == {PyNone, PyInt(0 - 1), PyInt(0), PyInt(2)}

\* the numbers tested: below and among small_primes, a prime above them,
\* and 103 * 103, which has no factor among them
SourcesNumbers == {4, 101, 257, 10609}

\* the numbers made prime: 256, as for a race of one-character choices
SourcesModulusSizes == {2, 256}

SourcesInit ==
    /\ randomness_sources =
          ("Miller_Rabin" :> [seed |-> DefaultSeed("Miller_Rabin"),
                              n |-> MillerRabinTrials])
    /\ \E chain \in MillerRabinChains, voter \in VoterChains :
          sha = (DefaultSeed("Miller_Rabin") :> chain) @@ (DefaultSeed("voter:0") :> voter)
    /\ op = ""
    /\ arg = <<>>
    /\ ret = Return(<<>>)
    /\ sbb = <<>>
    /\ clock = <<>>
    /\ election = <<>>
    /\ votes = <<>>
    /\ pc = ""
    /\ err = NoExc

\* init_randomness_source(rand_name)
SourcesInitSource ==
    \E rand_name \in SourcesNames :
        /\ op = ""
        /\ randomness_sources' =
               init_randomness_source(randomness_sources, rand_name, DefaultSeed(rand_name))
        /\ op' = "init_randomness_source"
        /\ arg' = [rand_name |-> rand_name]
        /\ ret' = Return(<<>>)
        /\ UNCHANGED <<sha, sbbVars, runVars>>

\* get_random_from_source(rand_name, modulus)
SourcesGetRandom ==
    \E rand_name \in SourcesNames, modulus \in SourcesModuli :
        /\ op = ""
        /\ op' = "get_random_from_source"
        /\ arg' = [rand_name |-> rand_name, modulus |-> modulus]
        /\ UNCHANGED <<sbbVars, runVars>>
        /\ IF rand_name \notin DOMAIN randomness_sources
             THEN ret' = Raise("AssertionError") /\ UNCHANGED svVars
           ELSE IF modulus # PyNone /\ modulus.i < 0
             THEN ret' = Raise("AssertionError") /\ UNCHANGED svVars
           ELSE \E d \in Digest :
                  /\ DrawsAgree(rand_name, 1, <<d>>)
                  /\ AfterDraws(rand_name, 1, <<d>>)
                  /\ ret' = IF modulus = PyNone THEN Return(RandomBytes(d))
                            ELSE IF modulus.i = 0 THEN Raise("ZeroDivisionError")
                            ELSE Return(d % modulus.i)

\* the sources after miller_rabin has read draws values (-1: not called)
AfterMillerRabin(draws) ==
    IF draws < 0 THEN UNCHANGED svVars
    ELSE /\ randomness_sources' =
              [init_randomness_source(randomness_sources, "Miller_Rabin",
                                      DefaultSeed("Miller_Rabin"))
                 EXCEPT !["Miller_Rabin"].n = draws]
         /\ UNCHANGED sha

\* is_prime(n)
SourcesIsPrime ==
    \E n \in SourcesNumbers :
      \E r \in {is_prime(n, sha[DefaultSeed("Miller_Rabin")])} :
        /\ op = ""
        /\ op' = "is_prime"
        /\ arg' = [n |-> n]
        /\ ret' = Return(r.val)
        /\ AfterMillerRabin(r.draws)
        /\ UNCHANGED <<sbbVars, runVars>>

\* make_prime(n), as Race.__init__ calls it for the race modulus
SourcesMakePrime ==
    \E n \in SourcesModulusSizes :
      \E r \in {make_prime_draws(n, sha[DefaultSeed("Miller_Rabin")])} :
        /\ op = ""
        /\ op' = "make_prime"
        /\ arg' = [n |-> n]
        /\ ret' = Return(r.val)
        /\ AfterMillerRabin(r.draws)
        /\ UNCHANGED <<sbbVars, runVars>>

SourcesNext ==
    \/ SourcesInitSource
    \/ SourcesGetRandom
    \/ SourcesIsPrime
    \/ SourcesMakePrime
    \/ SvDone

SpecSources == SourcesInit /\ [][SourcesNext]_vars

\* the name of the source that the call just made is allowed to change
SourceOfCall(call, args) ==
    IF call \in {"init_randomness_source", "get_random_from_source"}
      THEN args.rand_name
      ELSE "Miller_Rabin"

\* what the source b produces next, as far as its chain is revealed
ProducesNext(b) ==
    LET st == randomness_sources[b]
    IN  IF st.n < Len(sha[st.seed]) THEN <<sha[st.seed][st.n + 1]>> ELSE <<>>

\* C28: named randomness sources are independent: init_randomness_source(a)
\* and get_random_from_source(a) change only the state stored under a, and
\* is_prime and make_prime only the state of "Miller_Rabin"; every other
\* source keeps its state and what it produces next.
C28_SourcesIndependent ==
    [][\A b \in DOMAIN randomness_sources :
          (op' = "" \/ b # SourceOfCall(op', arg')) =>
             /\ b \in DOMAIN randomness_sources'
             /\ randomness_sources'[b] = randomness_sources[b]
             /\ ProducesNext(b) # <<>> => ProducesNext(b)' = ProducesNext(b)]_vars

\* make_prime has run miller_rabin to the end while the source of the
\* voter stands after a value it has produced
C28_Witness ==
    /\ op = "make_prime"
    /\ arg.n = 256
    /\ ret.val = 257
    /\ randomness_sources["Miller_Rabin"].n = MillerRabinTrials
    /\ "voter:0" \in DOMAIN randomness_sources
    /\ randomness_sources["voter:0"].n > 0

\* is_prime answers True for every prime (and for 103 * 103 when every
\* trial draws a = 1); make_prime returns no number below n
PrimesPass ==
    /\ op = "is_prime" => (IsPrimeNumber(arg.n) => ret.val)
    /\ op = "make_prime" => ret.val >= arg.n

(***************************************************************************)
(* SpecShuffle: random_permutation called on lists of distinct elements    *)
(* and on integers, with one source, for all the values the source may     *)
(* give.  arg holds the list, the position of the source before the call   *)
(* and the values read.                                                    *)
(***************************************************************************)
\* len(range(a, b))
RangeLen(a, b) == IF b > a THEN b - a ELSE 0

\* what random_permutation is called on: range(n) for the integer n, or
\* the positions of n voters
ShuffledList(n, positions) == IF positions /\ n > 0 THEN p_list(n) ELSE range(n)

ShuffleInit ==
    /\ randomness_sources =
           init_randomness_source(<<>>, "test_random_permutation",
                                  DefaultSeed("test_random_permutation"))
    /\ sha = (DefaultSeed("test_random_permutation") :> <<>>)
    /\ op = ""
    /\ arg = <<>>
    /\ ret = Return(<<>>)
    /\ sbb = <<>>
    /\ clock = <<>>
    /\ election = <<>>
    /\ votes = <<>>
    /\ pc = ""
    /\ err = NoExc

\* random_permutation(elts, "test_random_permutation"): the loop
\* "for i in range(1, g)" reads one value per round
ShuffleRandomPermutation ==
    \E n \in 0..MaxKeys, positions \in BOOLEAN :
      \E elts \in {ShuffledList(n, positions)} :
       \E ds \in [1..RangeLen(1, Len(elts)) -> Digest] :
        /\ op = ""
        /\ DrawsAgree("test_random_permutation", Len(ds), ds)
        /\ AfterDraws("test_random_permutation", Len(ds), ds)
        /\ op' = "random_permutation"
        /\ arg' = [elts |-> elts,
                   before |-> randomness_sources["test_random_permutation"].n,
                   ds |-> ds]
        /\ ret' = Return(random_permutation(elts, ds))
        /\ UNCHANGED <<sbbVars, runVars>>

ShuffleNext == ShuffleRandomPermutation \/ SvDone

SpecShuffle == ShuffleInit /\ [][ShuffleNext]_vars

\* the values that the last call has read from the source
ShuffleDraws == randomness_sources["test_random_permutation"].n - arg.before

\* the dict perm is a bijection of the set S onto itself
IsBijection(perm, S) ==
    /\ DOMAIN perm = S
    /\ Range(perm) = S
    /\ \A a, b \in S : a # b => perm[a] # perm[b]

\* C29: random_permutation(elts, name) returns a bijection of the element
\* set onto itself for every g = |elts| >= 0 and every sequence of values
\* of the source, and draws exactly g - 1 values from the source.
C29_DrawsOneLessThanElements ==
    op = "random_permutation" =>
        /\ IsBijection(ret.val, Range(arg.elts))
        /\ ShuffleDraws = Len(arg.elts) - 1

\* C29 amended: random_permutation returns a bijection of the element set
\* onto itself for every g >= 0 and every sequence of values of the source;
\* it draws g - 1 values for g >= 1 and none for g = 0, and the i-th value
\* is reduced modulo i + 1: place i is swapped with a place j <= i.
C29_BijectionAndDraws ==
    op = "random_permutation" =>
        LET g == Len(arg.elts)
        IN  /\ IsBijection(ret.val, Range(arg.elts))
            /\ ShuffleDraws = IF g = 0 THEN 0 ELSE g - 1
            /\ Len(arg.ds) = ShuffleDraws
            /\ ret.val = [elt \in Range(arg.elts) |->
                            arg.elts[FisherYates(range(g), 1,
                                        [i \in 1..ShuffleDraws |->
                                           arg.ds[i] % (i + 1)])[IndexOf(arg.elts, elt)] + 1]]

\* a list of MaxKeys elements has been permuted with a value that is
\* reduced, and no element has kept its place
C29_Witness ==
    /\ op = "random_permutation"
    /\ Len(arg.elts) = MaxKeys
    /\ ShuffleDraws = MaxKeys - 1
    /\ \E i \in DOMAIN arg.ds : arg.ds[i] >= i + 1
    /\ \A elt \in Range(arg.elts) : ret.val[elt] # elt

(***************************************************************************)
(* Spec: the program sv_main.do_election on any election parameters of the *)
(* right types: Election(election_parameters), run_election(), print_sbb,  *)
(* sv_verifier.verify.  The program stops at the first exception.          *)
(***************************************************************************)
ElectionIds == {"", "default_election"}
Init ==
    /\ arg \in [election_id : ElectionIds,
                 ballot_style : BallotStyles,
                 n_voters : 0..MaxVoters,
                 n_reps : 0..MaxReps,
                 n_fail : (0 - 1)..MaxFail,
                 n_leak : (0 - 1)..MaxLeak,
                 ballot_id_len : {0, 32},
                 json_indent : (0 - 1)..1]
    /\ op = "do_election"
    /\ ret = Return(<<>>)
    /\ pc = "Election.__init__"
    /\ err = NoExc
    /\ election = <<>>
    /\ votes = <<>>
    /\ sbb = <<>>
    /\ clock = <<>>
    /\ randomness_sources = <<>>
    /\ sha = <<>>

\* Election.__init__ up to "assert json_indent >= 0"
ElectionCheckParameters ==
    /\ pc = "Election.__init__"
    /\ IF ParametersAccepted(arg)
          THEN /\ election' = CheckedParameters(arg)
               /\ pc' = "sv_sbb.SBB"
               /\ err' = err
          ELSE /\ err' = "AssertionError"
               /\ pc' = "raised"
               /\ election' = election
    /\ UNCHANGED <<votes, callVars, sbbVars, svVars>>

\* self.sbb = sv_sbb.SBB(election_id, json_indent)
ElectionStartSbb ==
    /\ pc = "sv_sbb.SBB"
    /\ CallRaises(SBB_parameters, <<election.election_id, election.json_indent>>) # NoExc
    /\ err' = CallRaises(SBB_parameters, <<election.election_id, election.json_indent>>)
    /\ pc' = "raised"
    /\ UNCHANGED <<election, votes, callVars, sbbVars, svVars>>

Next == ElectionCheckParameters \/ ElectionStartSbb

Spec == Init /\ [][Next]_vars

(***************************************************************************)
(* Claims about a whole election, checked under Spec.                      *)
(***************************************************************************)
\* the program has stopped: it has run to its end or has raised
Stopped == pc \in {"done", "raised"}

\* C1: for every valid parameter set, the election is constructed and run
\* to its end and its transcript is accepted by the verifier; that is, a
\* program that stops on parameters Election accepts stops without an
\* exception, after verify.
C1_Completeness ==
    (Stopped /\ ParametersAccepted(arg)) => (pc = "done" /\ err = NoExc)

\* the headers on the board of the election; no board, no headers
PostedHeaders == IF sbb = <<>> THEN <<>> ELSE Headers(sbb[1].board)

\* C2: the headers appended by one complete election run are exactly the 17
\* headers of HEADER_LIST, in that order; that is, when the program stops on
\* parameters Election accepts, its board carries those headers.
C2_HeaderList ==
    (Stopped /\ ParametersAccepted(arg)) => PostedHeaders = HEADER_LIST

=============================================================================
